---------------------------- MODULE Spec2Model ----------------------------
(***************************************************************************)
(* A model of renamearr's ingestion pipeline (app/api.py,                  *)
(* app/services/scanner.py, app/services/linker.py,                        *)
(* app/services/auto_scanner.py).                                          *)
(*                                                                         *)
(* Three specifications share the module:                                  *)
(*   SpecGuard  the scan guard of POST /scan and the periodic driver;      *)
(*   Spec       the record store, the filesystem of destinations, one scan *)
(*              with its workers, and the operator's record operations;    *)
(*   SpecPool   the semaphore-gated worker pool of one chunk.              *)
(* An asyncio task runs without interruption between two awaits, so every  *)
(* action below is the code between two suspension points.                 *)
(***************************************************************************)
EXTENDS Integers, Sequences, FiniteSets, Bags, TLC

(***************************************************************************)
(* Bounds of the model.                                                    *)
(***************************************************************************)
\* concurrent POST /scan requests in flight
NumClients == 2
\* cap on simultaneously running operator scan tasks
MaxRunning == 3

VARIABLES
    \* ---- SpecGuard: api._scan_in_progress, the config flags, the tasks
    scan_in_progress,   \* api.py:718 _scan_in_progress
    require_arr,        \* config.require_arr
    auto_scan_enabled,  \* config.auto_scan_enabled
    auto_scan_interval, \* config.auto_scan_interval
    auto_scan_unit,     \* config.auto_scan_unit
    reqPc,              \* position of each POST /scan handler
    reqResp,            \* last response each client received
    opRunning,          \* number of _run_scan_background tasks not yet ended
    autoPc,             \* position of AutoScanner._run_loop
    next_scan,          \* AutoScanner._next_scan: "none" or "set"
    lastEnd             \* how the last operator scan task ended

VARIABLES
    \* ---- Spec: the record store, the destinations, one scan
    store,              \* committed media_files rows, keyed by source_path
    fs,                 \* what lies at each destination path
    exists,             \* source files present on disk
    scanPc,             \* position of scan_and_process
    scanOrigin,         \* who started the scan: "operator" or "auto"
    video_files,        \* scanner.py:500-503 the discovered list
    batchStart,         \* scanner.py:528 the index i of the chunk
    wpc,                \* position of each process_single task
    wlocal,             \* the MediaFile object a worker's session holds
    wdirty,             \* its attributes that differ from the loaded row
    wcreated,           \* scanner.py:450 created
    wseen,              \* what the worker's lookup found
    stats,              \* scanner.py:505-513
    processed_counter,  \* scanner.py:523 processed_counter["count"]
    events,             \* events emitted by the scan, in order
    scanEnd,            \* how the last scan ended
    handled             \* requests to the files API served so far

VARIABLES
    \* ---- SpecPool: the semaphore of one chunk and its workers
    semaphore,          \* scanner.py:521 the semaphore's free permits
    pool                \* how many process_single tasks are at each position

intervalVars == <<auto_scan_interval, auto_scan_unit>>

VARIABLES
    \* ---- SpecBus: EventManager and the live event streams
    subscribers,        \* events.py:32 _subscribers, a list of queues
    queue,              \* the events waiting in each stream's queue
    streamPc,           \* position of each event_generator
    log,                \* every event emitted so far, in order
    received,           \* every event put into each stream's current queue
    subFrom,            \* how many events had been emitted at its subscribe
    subTo,              \* and at its unsubscribe
    streamEnd           \* how each stream ended

VARIABLES
    \* ---- SpecDriver: AutoScanner's task
    task_state,         \* each task the driver ever created
    cur_task,           \* auto_scanner.py _task (0 for None)
    running,            \* auto_scanner.py _running
    callPc,             \* position of each caller of stop() or restart()
    callWait            \* the task that caller awaits

VARIABLES
    \* ---- SpecConfig: ConfigManager
    config_cache,       \* config_manager.py:56 _config
    config_file,        \* the text of config.json
    config_returned,    \* the document the last update() returned
    config_loaded       \* the document the last GET /config returned

guardVars == <<scan_in_progress, require_arr, auto_scan_enabled, intervalVars,
               reqPc, reqResp, opRunning, autoPc, next_scan, lastEnd>>

storeVars == <<store, fs, exists>>

workerVars == <<wpc, wlocal, wdirty, wcreated, wseen>>

scanVars == <<scanPc, scanOrigin, video_files, batchStart, stats,
              processed_counter, events, scanEnd>>

poolVars == <<semaphore, pool>>

corePipe == <<storeVars, workerVars, scanVars, handled, poolVars>>

busVars == <<subscribers, queue, streamPc, log, received, subFrom, subTo,
             streamEnd>>

driverVars == <<task_state, cur_task, running, callPc, callWait>>

cfgVars == <<config_cache, config_file, config_returned, config_loaded>>

VARIABLES
    \* ---- SpecLink: FileLinker on a destination tree of its own
    link_fs,            \* what lies at each destination path
    link_exists,        \* source files present on disk
    last_call           \* the last call of create_hardlink and its answer

linkVars == <<link_fs, link_exists, last_call>>

VARIABLES
    \* ---- SpecDirs: the directories of the destination tree
    dest_dirs,          \* the directories that exist, each a path
    dest_files,         \* the destination entries that exist
    movies_path,        \* config.movies_path
    tv_path             \* config.tv_path

dirVars == <<dest_dirs, dest_files, movies_path, tv_path>>

VARIABLES
    \* ---- SpecMatch: TMDBService.match_media
    match_call          \* the call in progress: its inputs and its answer

matchVars == <<match_call>>

VARIABLES
    \* ---- SpecStats: MediaScanner.get_stats beside the committing sessions
    stat_store,         \* the committed media_files rows: status or "absent"
    stat_pc,            \* the count queries get_stats has made so far
    stat_acc,           \* the dict get_stats fills
    stat_payload        \* the stats_updated event of the finished snapshot

statVars == <<stat_store, stat_pc, stat_acc, stat_payload>>

VARIABLES
    \* ---- SpecInsert: the workers of one batch on a list that names a
    \* path more than once
    ins_rows,           \* the committed rows of media_files
    ins_pc,             \* per worker: where process_single stands
    ins_local,          \* per worker: the MediaFile object of its session
    ins_created         \* per worker: created of get_or_create_file

insVars == <<ins_rows, ins_pc, ins_local, ins_created>>

VARIABLES
    \* ---- SpecToken: TVDBService._get_token
    tok_token,          \* self._token: None or the number of the login that gave it
    tok_valid,          \* now < self._token_expires - 5 minutes
    tok_haskey,         \* a TVDB api key is configured
    tok_lock,           \* self._token_lock: its holder, 0 when free
    tok_pc,             \* per caller: where its _get_token stands
    tok_got,            \* per caller: what its last _get_token returned
    tok_calls,          \* calls of _get_token made so far
    tok_logins,         \* POST /login requests issued so far
    tok_inflight,       \* POST /login requests without an answer yet
    tok_lapses          \* logins that failed and tokens that ran out

tokVars == <<tok_token, tok_valid, tok_haskey, tok_lock, tok_pc, tok_got,
             tok_calls, tok_logins, tok_inflight, tok_lapses>>

VARIABLES
    \* ---- SpecDiscover: MediaScanner.scan_directory over a source root
    disc_tree,          \* the files below the root
    disc_found          \* what the last scan_directory returned, None once
                        \* the tree has changed

discVars == <<disc_tree, disc_found>>

VARIABLES
    \* ---- SpecSanitize: sanitize_filename
    san_call            \* the call in progress: the name, its sanitized
                        \* form and the sanitized form of that

sanVars == <<san_call>>

VARIABLES
    \* ---- SpecChunks: the chunk loop of scan_and_process over a long list
    chk_pc,             \* where scan_and_process stands
    chk_files,          \* len(video_files)
    chk_start,          \* i of "for i in range(0, len(video_files), BATCH_SIZE)"
    chk_waiting,        \* tasks of the chunk before the semaphore
    chk_inside,         \* tasks of the chunk inside process_single
    chk_started,        \* tasks that have entered process_single, all chunks
    chk_finished,       \* tasks that have returned, all chunks
    chk_stats,          \* stats_updated events emitted by the loop
    chk_counter,        \* processed_counter["count"]
    chk_progress        \* the current values of the scan_progress events
                        \* emitted by the workers

chkVars == <<chk_pc, chk_files, chk_start, chk_waiting, chk_inside,
             chk_started, chk_finished, chk_stats, chk_counter, chk_progress>>

\* ---- the variables each of the following specifications leaves alone
extVars == <<linkVars, dirVars, matchVars, statVars, insVars, tokVars, discVars, sanVars, chkVars>>

notLinkVars ==
    <<guardVars, corePipe, busVars, driverVars, cfgVars, dirVars,
      matchVars, statVars, insVars, tokVars, discVars, sanVars, chkVars>>

notDirVars ==
    <<guardVars, corePipe, busVars, driverVars, cfgVars, linkVars,
      matchVars, statVars, insVars, tokVars, discVars, sanVars, chkVars>>

notMatchVars ==
    <<guardVars, corePipe, busVars, driverVars, cfgVars, linkVars,
      dirVars, statVars, insVars, tokVars, discVars, sanVars, chkVars>>

notStatVars ==
    <<guardVars, corePipe, busVars, driverVars, cfgVars, linkVars,
      dirVars, matchVars, insVars, tokVars, discVars, sanVars, chkVars>>

notInsVars ==
    <<guardVars, corePipe, busVars, driverVars, cfgVars, linkVars,
      dirVars, matchVars, statVars, tokVars, discVars, sanVars, chkVars>>

notTokVars ==
    <<guardVars, corePipe, busVars, driverVars, cfgVars, linkVars,
      dirVars, matchVars, statVars, insVars, discVars, sanVars, chkVars>>

notDiscVars ==
    <<guardVars, corePipe, busVars, driverVars, cfgVars, linkVars,
      dirVars, matchVars, statVars, insVars, tokVars, sanVars, chkVars>>

notSanVars ==
    <<guardVars, corePipe, busVars, driverVars, cfgVars, linkVars,
      dirVars, matchVars, statVars, insVars, tokVars, discVars, chkVars>>

notChkVars ==
    <<guardVars, corePipe, busVars, driverVars, cfgVars, linkVars,
      dirVars, matchVars, statVars, insVars, tokVars, discVars, sanVars>>

sideVars == <<busVars, driverVars, cfgVars, extVars>>

pipeVars == <<corePipe, sideVars>>

vars == <<guardVars, pipeVars>>

Clients == 1..NumClients

\* the intervals and units an operator may configure
Intervals == {0, 30}

Units == {"seconds", "minutes"}

(***************************************************************************)
(* SpecGuard: POST /scan, its background task, and the periodic driver.    *)
(***************************************************************************)
GuardInit ==
    /\ scan_in_progress = FALSE
    /\ require_arr = FALSE         \* config_manager.py:36 default
    /\ auto_scan_enabled = FALSE   \* config_manager.py:39 default
    /\ auto_scan_interval = 30     \* config_manager.py:40 default
    /\ auto_scan_unit = "minutes"  \* config_manager.py:41 default
    /\ reqPc = [c \in Clients |-> "idle"]
    /\ reqResp = [c \in Clients |-> "none"]
    /\ opRunning = 0
    /\ autoPc = "loop"
    /\ next_scan = "none"
    /\ lastEnd = "none"

\* api.py:762-771: mark the scan in progress, create the background task.
AcceptScan(c) ==
    /\ opRunning < MaxRunning
    /\ scan_in_progress' = TRUE
    /\ opRunning' = opRunning + 1
    /\ reqPc' = [reqPc EXCEPT ![c] = "idle"]
    /\ reqResp' = [reqResp EXCEPT ![c] = "started"]

\* api.py:730-745: the guard test and the config read; with require_arr the
\* handler suspends in test_connection() before it sets the guard.
ScanFilesCheck(c) ==
    /\ UNCHANGED pipeVars
    /\ reqPc[c] = "idle"
    /\ IF scan_in_progress
         THEN /\ reqResp' = [reqResp EXCEPT ![c] = "409"]
              /\ UNCHANGED <<scan_in_progress, opRunning, reqPc>>
         ELSE IF require_arr
                THEN /\ reqPc' = [reqPc EXCEPT ![c] = "arr_check"]
                     /\ reqResp' = [reqResp EXCEPT ![c] = "none"]
                     /\ UNCHANGED <<scan_in_progress, opRunning>>
                ELSE AcceptScan(c)
    /\ UNCHANGED <<require_arr, auto_scan_enabled, intervalVars, autoPc,
                   next_scan, lastEnd>>

\* A check that is content with one of the two endpoints.
ArrReachableEither(radarr_ok, sonarr_ok) == radarr_ok \/ sonarr_ok

\* api.py:749-758: 400 if not radarr_ok, 400 if not sonarr_ok
ArrReachable(radarr_ok, sonarr_ok) == radarr_ok /\ sonarr_ok

\* api.py:746-771: the two connectivity answers arrive; the guard is not
\* tested again.
ScanFilesAfterArr(c, radarr_ok, sonarr_ok) ==
    /\ UNCHANGED pipeVars
    /\ reqPc[c] = "arr_check"
    /\ IF ArrReachable(radarr_ok, sonarr_ok)
         THEN AcceptScan(c)
         ELSE /\ reqPc' = [reqPc EXCEPT ![c] = "idle"]
              /\ reqResp' = [reqResp EXCEPT ![c] = "400"]
              /\ UNCHANGED <<scan_in_progress, opRunning>>
    /\ UNCHANGED <<require_arr, auto_scan_enabled, intervalVars, autoPc,
                   next_scan, lastEnd>>

\* The guard as a task without the finally clause would leave it.
GuardAfterScanNoFinally(outcome, guard) ==
    IF outcome = "returned" THEN FALSE ELSE guard

\* api.py:724-727: try: scan_and_process(...) finally: guard = False.
GuardAfterScan(outcome, guard) ==
    FALSE

\* api.py:721-727: one background task ends, normally or by an exception of
\* scan_and_process.
RunScanBackgroundEnd(outcome) ==
    /\ UNCHANGED pipeVars
    /\ opRunning > 0
    /\ opRunning' = opRunning - 1
    /\ scan_in_progress' = GuardAfterScan(outcome, scan_in_progress)
    /\ lastEnd' = outcome
    /\ UNCHANGED <<require_arr, auto_scan_enabled, intervalVars, reqPc,
                   reqResp, autoPc, next_scan>>

\* auto_scanner.py:89-92: the pause between two scans, in seconds
IntervalSeconds(interval, unit) ==
    IF unit = "seconds" THEN interval ELSE interval * 60

\* A driver that scans whatever the configuration says.
DriverScansAlways(enabled, interval_seconds) ==
    TRUE

\* auto_scanner.py:81-101: the loop scans when auto_scan_enabled is set; the
\* interval it computes next decides the pause after the scan, not the scan.
DriverScans(enabled, interval_seconds) ==
    enabled

\* auto_scanner.py:79-101: one pass of the loop up to the scan; the guard of
\* api.py is neither read nor written.
AutoScannerIterate ==
    /\ UNCHANGED pipeVars
    /\ autoPc = "loop"
    /\ IF ~DriverScans(auto_scan_enabled,
                       IntervalSeconds(auto_scan_interval, auto_scan_unit))
         THEN /\ next_scan' = "none"
              /\ autoPc' = "loop"
         ELSE /\ next_scan' = "set"
              /\ autoPc' = "scanning"
    /\ UNCHANGED <<scan_in_progress, require_arr, auto_scan_enabled,
                   intervalVars, reqPc, reqResp, opRunning, lastEnd>>

\* auto_scanner.py:101-114: scan_and_process returns or raises (caught at
\* line 104); the driver sleeps and loops.
AutoScanEnd ==
    /\ UNCHANGED pipeVars
    /\ autoPc = "scanning"
    /\ autoPc' = "loop"
    /\ next_scan' = "set"
    /\ UNCHANGED <<scan_in_progress, require_arr, auto_scan_enabled,
                   intervalVars, reqPc, reqResp, opRunning, lastEnd>>

\* api.py:106-143 with auto_scanner.py:60-75: PUT /config; a change of the
\* auto-scan flag, interval or unit restarts the driver, which cancels its
\* task (and the scan it is running) and starts a fresh one.
UpdateConfig(arr, enabled, interval, unit) ==
    /\ UNCHANGED pipeVars
    /\ <<arr, enabled, interval, unit>> #
          <<require_arr, auto_scan_enabled, auto_scan_interval, auto_scan_unit>>
    /\ require_arr' = arr
    /\ auto_scan_enabled' = enabled
    /\ auto_scan_interval' = interval
    /\ auto_scan_unit' = unit
    /\ IF <<enabled, interval, unit>> #
            <<auto_scan_enabled, auto_scan_interval, auto_scan_unit>>
         THEN /\ autoPc' = "loop"
              /\ next_scan' = "none"
         ELSE UNCHANGED <<autoPc, next_scan>>
    /\ UNCHANGED <<scan_in_progress, reqPc, reqResp, opRunning, lastEnd>>

(***************************************************************************)
(* Spec: the data of the pipeline.                                         *)
(*                                                                         *)
(* A nullable column holds None (<<>>) or Some(v) (<<v>>).  A source file  *)
(* is a number; the row of a file is keyed by it, as media_files is by its *)
(* unique source_path.  A catalogue title is the catalogue id it belongs   *)
(* to, so two records get the same canonical destination exactly when      *)
(* they carry the same kind, title, season and episode.                    *)
(***************************************************************************)
\* source files that may lie under the source root
NumPaths == 2
\* requests to the files API in one behaviour
MaxRequests == 2
\* catalogue entries the remote service knows
MaxTmdbId == 1

Paths == 1..NumPaths
TmdbIds == 1..MaxTmdbId

None == <<>>
Some(v) == <<v>>
Val(o) == o[1]

\* models.py:27-33 ProcessingStatus
Statuses == {"pending", "matched", "linked", "failed", "ignored", "manual"}

\* models.py:21-24 MediaType
MediaTypes == {"movie", "tv", "unknown"}

\* parser.py:284-345 parse_path, on the file names that lie under the source
\* root: a movie, a name of unknown kind, an episode, an episode number
\* without a season.  Every name has a title.
ParseTable ==
    << [media_type |-> "movie",   season |-> None,    episode |-> None],
       [media_type |-> "unknown", season |-> None,    episode |-> None],
       [media_type |-> "tv",      season |-> Some(1), episode |-> Some(1)],
       [media_type |-> "tv",      season |-> Some(1), episode |-> None] >>

ParseOf(p) == ParseTable[((p - 1) % Len(ParseTable)) + 1]

\* scanner.py:179-189: the row get_or_create_file adds (unified source mode,
\* so no forced type).
NewMediaFile(p) ==
    [status           |-> "pending",
     media_type       |-> ParseOf(p).media_type,
     parsed_season    |-> ParseOf(p).season,
     parsed_episode   |-> ParseOf(p).episode,
     tmdb_id          |-> None,
     tmdb_title       |-> None,
     destination_path |-> None,
     error_message    |-> None]

Fields == {"status", "media_type", "parsed_season", "parsed_episode",
           "tmdb_id", "tmdb_title", "destination_path", "error_message"}

\* linker.py:50-66 build_movie_path
BuildMoviePath(title) ==
    [kind |-> "movie", title |-> title, season |-> 0, episode |-> 0]

\* linker.py:68-87 build_tv_path
BuildTvPath(title, season, episode) ==
    [kind |-> "tv", title |-> title, season |-> season, episode |-> episode]

Seasons == {1}
Episodes == {1}

\* every canonical destination the bounded catalogue can give
Dests ==
    {BuildMoviePath(t) : t \in TmdbIds}
      \cup {BuildTvPath(t, s, e) : t \in TmdbIds, s \in Seasons, e \in Episodes}

\* An entry of the destination tree: the source it refers to, as a second
\* name of the same inode or as a symbolic link to the source's path.
FsEntries == [src : Paths, sym : BOOLEAN]

\* pathlib exists(): follows a symbolic link, so a link whose source is gone
\* does not exist.
PathExists(fsys, d, ex) ==
    /\ fsys[d] # None
    /\ (Val(fsys[d]).sym => Val(fsys[d]).src \in ex)

\* pathlib is_symlink()
IsSymlink(fsys, d) == fsys[d] # None /\ Val(fsys[d]).sym

\* What the link(2) call inside create_hardlink may answer.
LinkOutcomes == {"ok", "exdev", "oserror"}

\* A create_hardlink that links without unlinking what is there.
CreateHardlinkNoUnlink(fsys, source, d, lo, ex) ==
    IF source \notin ex \/ fsys[d] # None \/ lo = "oserror"
      THEN [ok |-> FALSE, fs |-> fsys]
      ELSE [ok |-> TRUE,
            fs |-> [fsys EXCEPT ![d] =
                      Some([src |-> source, sym |-> (lo = "exdev")])]]

\* linker.py:89-124 create_hardlink: <<success, filesystem afterwards>>.
\* A destination that exists is unlinked first and stays removed when the
\* link then fails; a dangling symbolic link does not "exist", is kept, and
\* makes link(2) fail with EEXIST.
CreateHardlink(fsys, source, d, lo, ex) ==
    IF source \notin ex
      THEN [ok |-> FALSE, fs |-> fsys]
      ELSE LET cleared == IF PathExists(fsys, d, ex)
                            THEN [fsys EXCEPT ![d] = None] ELSE fsys
           IN  IF cleared[d] # None
                 THEN [ok |-> FALSE, fs |-> cleared]
                 ELSE CASE lo = "ok" ->
                             [ok |-> TRUE,
                              fs |-> [cleared EXCEPT ![d] =
                                        Some([src |-> source, sym |-> FALSE])]]
                        [] lo = "exdev" ->
                             [ok |-> TRUE,
                              fs |-> [cleared EXCEPT ![d] =
                                        Some([src |-> source, sym |-> TRUE])]]
                        [] OTHER -> [ok |-> FALSE, fs |-> cleared]

\* linker.py:160-176 remove_link (the directories it prunes are not part of
\* this state).
RemoveLink(fsys, d, ex) ==
    IF PathExists(fsys, d, ex) \/ IsSymlink(fsys, d)
      THEN [fsys EXCEPT ![d] = None]
      ELSE fsys

\* The destination a record's destination_path names, removed.
RemoveRecordLink(fsys, rec, ex) ==
    IF rec.destination_path # None
      THEN RemoveLink(fsys, Val(rec.destination_path), ex)
      ELSE fsys

\* What match_media may answer for a record of a given kind
\* (tmdb.py:174-223): no match, a hit of the kind searched (either kind for
\* an unknown one), or an exception of the HTTP client.
MatchOutcomes(media_type) ==
    {[kind |-> "none", id |-> 0, media_type |-> "unknown"],
     [kind |-> "raise", id |-> 0, media_type |-> "unknown"]}
      \cup {[kind |-> "hit", id |-> i, media_type |-> t] :
              i \in TmdbIds,
              t \in IF media_type = "unknown" THEN {"movie", "tv"}
                                             ELSE {media_type}}

AllMatchOutcomes == UNION {MatchOutcomes(t) : t \in MediaTypes}

Failed(rec, msg) ==
    [rec EXCEPT !.status = "failed", !.error_message = Some(msg)]

Manual(rec, msg) ==
    [rec EXCEPT !.status = "manual", !.error_message = Some(msg)]

\* A create_link that records the destination whatever the linker answered.
AfterLinkKeepsPath(rec, d, res) ==
    IF res.ok
      THEN [rec |-> [rec EXCEPT !.destination_path = Some(d),
                                !.status = "linked"],
            fs  |-> res.fs]
      ELSE [rec |-> [Failed(rec, "linker message")
                        EXCEPT !.destination_path = Some(d)],
            fs  |-> res.fs]

\* scanner.py:274-280: the record after the linker answered.
AfterLink(rec, d, res) ==
    IF res.ok
      THEN [rec |-> [rec EXCEPT !.destination_path = Some(d),
                                !.status = "linked"],
            fs  |-> res.fs]
      ELSE [rec |-> Failed(rec, "linker message"), fs |-> res.fs]

\* scanner.py:237-287 create_link: <<record in memory, filesystem>>.
CreateLink(rec, p, lo, fsys, ex) ==
    IF rec.tmdb_id = None \/ rec.tmdb_title = None
      THEN [rec |-> Failed(rec, "Informations TMDB manquantes"), fs |-> fsys]
      ELSE IF rec.media_type = "movie"
        THEN LET d == BuildMoviePath(Val(rec.tmdb_title))
             IN  AfterLink(rec, d, CreateHardlink(fsys, p, d, lo, ex))
      ELSE IF rec.media_type = "tv"
        THEN IF rec.parsed_season = None \/ rec.parsed_episode = None
               THEN [rec |-> Manual(rec, "Saison ou episode manquant"),
                     fs  |-> fsys]
               ELSE LET d == BuildTvPath(Val(rec.tmdb_title),
                                         Val(rec.parsed_season),
                                         Val(rec.parsed_episode))
                    IN  AfterLink(rec, d, CreateHardlink(fsys, p, d, lo, ex))
      ELSE [rec |-> Manual(rec, "Type de media inconnu"), fs |-> fsys]

\* scanner.py:194-235 process_file: <<record in memory, filesystem>>.
\* Without a match the status is set to manual (205-206) and then
\* file_linker.link_manual is called (210); FileLinker (linker.py:32-189)
\* has no such method, the AttributeError is caught at 232 and the record
\* becomes failed with the exception's text.
ProcessFile(rec, p, mo, lo, fsys, ex) ==
    CASE mo.kind = "raise" ->
           [rec |-> Failed(rec, "exception text"), fs |-> fsys]
      [] mo.kind = "none" ->
           [rec |-> Failed(Manual(rec, "Aucune correspondance TMDB trouvee"),
                           "exception text"),
            fs  |-> fsys]
      [] OTHER ->
           CreateLink([rec EXCEPT !.tmdb_id = Some(mo.id),
                                  !.tmdb_title = Some(mo.id),
                                  !.media_type = mo.media_type,
                                  !.status = "matched"],
                      p, lo, fsys, ex)

(***************************************************************************)
(* Spec: the scan (scanner.py:433-557) and its workers.                    *)
(***************************************************************************)
PARALLEL_WORKERS == 15
SSE_UPDATE_FREQUENCY == 50
BATCH_SIZE == 100

RECURSIVE SeqOfSet(_)
\* the members of a set of numbers in ascending order (the order of os.walk
\* over names that sort like their numbers)
SeqOfSet(S) ==
    IF S = {} THEN <<>>
    ELSE LET m == CHOOSE x \in S : \A y \in S : x <= y
         IN  <<m>> \o SeqOfSet(S \ {m})

Min(a, b) == IF a <= b THEN a ELSE b

\* scanner.py:529 video_files[i:i + BATCH_SIZE], as the set of its files
Batch(files, i) ==
    {files[k] : k \in i..Min(i + BATCH_SIZE - 1, Len(files))}

ZeroStats(n) ==
    [scanned |-> n, new |-> 0, processed |-> 0, linked |-> 0, failed |-> 0,
     manual |-> 0, deleted |-> 0]

Event(type, data) == [type |-> type, data |-> data]

\* files in the chunk whose tasks share the semaphore
NumPoolFiles == 17

Positions == {"waiting", "inside", "returned", "raised"}

NoTasks == [k \in Positions |-> 0]

IdleWorkers == [p \in Paths |-> "none"]
NoLocals == [p \in Paths |-> NewMediaFile(p)]

PipeInit ==
    /\ store = <<>>
    /\ fs = [d \in Dests |-> None]
    /\ exists = Paths
    /\ scanPc = "idle"
    /\ scanOrigin = "none"
    /\ video_files = <<>>
    /\ batchStart = 0
    /\ wpc = IdleWorkers
    /\ wlocal = NoLocals
    /\ wdirty = [p \in Paths |-> {}]
    /\ wcreated = [p \in Paths |-> FALSE]
    /\ wseen = [p \in Paths |-> "none"]
    /\ stats = ZeroStats(0)
    /\ processed_counter = 0
    /\ events = <<>>
    /\ scanEnd = "none"
    /\ handled = 0
    /\ semaphore = PARALLEL_WORKERS
    /\ pool = NoTasks

(***************************************************************************)
(* SpecBus: the event bus and the live event streams.                      *)
(*                                                                         *)
(* A channel is the queue of one stream; _subscribers lists the streams    *)
(* whose queue is registered.  The queues are unbounded, so queue.put      *)
(* returns without suspending and one emit is one step.  log, received,    *)
(* subFrom, subTo and streamEnd record what happened; the program does not *)
(* read them.                                                              *)
(***************************************************************************)
\* live event streams a client may hold open
NumStreams == 2
\* events emitted in one behaviour
MaxEmits == 3

Streams == 1..NumStreams

\* who emits: a scan, or a request handler of the files API
Emitters == {"scan_progress", "file_updated"}

\* how a stream ends: the client went away, the task was cancelled, or the
\* generator failed
StreamEnds == {"disconnect", "cancelled", "error"}

BusInit ==
    /\ subscribers = <<>>                         \* events.py:32
    /\ queue = [s \in Streams |-> <<>>]
    /\ streamPc = [s \in Streams |-> "closed"]
    /\ log = <<>>
    /\ received = [s \in Streams |-> <<>>]
    /\ subFrom = [s \in Streams |-> 0]
    /\ subTo = [s \in Streams |-> 0]
    /\ streamEnd = [s \in Streams |-> "none"]

\* list.remove: the list without the first occurrence of s (events.py:42-43)
RECURSIVE RemoveFirst(_, _)
RemoveFirst(subs, s) ==
    IF subs = <<>> THEN <<>>
    ELSE IF Head(subs) = s THEN Tail(subs)
    ELSE <<Head(subs)>> \o RemoveFirst(Tail(subs), s)

\* A generator that unsubscribes in its CancelledError handler only.
UnsubscribeOnCancelOnly(how, subs, s) ==
    IF how = "cancelled" THEN RemoveFirst(subs, s) ELSE subs

\* api.py:49-53 with events.py:40-43: the finally clause unsubscribes however
\* the generator ends.
UnsubscribeOnEnd(how, subs, s) ==
    RemoveFirst(subs, s)

\* An emit that stops after the first subscriber.
DeliverToFirst(subs, qs, e) ==
    IF subs = <<>> THEN qs
    ELSE [qs EXCEPT ![Head(subs)] = Append(@, e)]

\* events.py:47-49: for queue in self._subscribers: await queue.put(event)
RECURSIVE Deliver(_, _, _)
Deliver(subs, qs, e) ==
    IF subs = <<>> THEN qs
    ELSE Deliver(Tail(subs), [qs EXCEPT ![Head(subs)] = Append(@, e)], e)

\* api.py:36-37 with events.py:34-38: the generator starts and registers a
\* fresh queue.
StreamOpen(s) ==
    /\ streamPc[s] = "closed"
    /\ streamPc' = [streamPc EXCEPT ![s] = "open"]
    /\ subscribers' = Append(subscribers, s)
    /\ queue' = [queue EXCEPT ![s] = <<>>]
    /\ received' = [received EXCEPT ![s] = <<>>]
    /\ subFrom' = [subFrom EXCEPT ![s] = Len(log)]
    /\ streamEnd' = [streamEnd EXCEPT ![s] = "none"]
    /\ UNCHANGED <<log, subTo>>
    /\ UNCHANGED <<guardVars, corePipe, driverVars, cfgVars, extVars>>

\* api.py:40-45: the generator takes the next event of its queue and sends
\* it (a timeout sends a heartbeat and changes nothing).
StreamYield(s) ==
    /\ streamPc[s] = "open"
    /\ queue[s] # <<>>
    /\ queue' = [queue EXCEPT ![s] = Tail(@)]
    /\ UNCHANGED <<subscribers, streamPc, log, received, subFrom, subTo,
                   streamEnd>>
    /\ UNCHANGED <<guardVars, corePipe, driverVars, cfgVars, extVars>>

\* api.py:49-53: the generator ends; its queue goes with it.
StreamEnd(s, how) ==
    /\ streamPc[s] = "open"
    /\ streamPc' = [streamPc EXCEPT ![s] = "closed"]
    /\ subscribers' = UnsubscribeOnEnd(how, subscribers, s)
    /\ queue' = [queue EXCEPT ![s] = <<>>]
    /\ subTo' = [subTo EXCEPT ![s] = Len(log)]
    /\ streamEnd' = [streamEnd EXCEPT ![s] = how]
    /\ UNCHANGED <<log, received, subFrom>>
    /\ UNCHANGED <<guardVars, corePipe, driverVars, cfgVars, extVars>>

\* events.py:45-49: one emit, by a scan or by a request handler.
Emit(who) ==
    /\ Len(log) < MaxEmits
    /\ LET e == Event(who, Len(log) + 1)
       IN  /\ log' = Append(log, e)
           /\ queue' = Deliver(subscribers, queue, e)
           /\ received' = Deliver(subscribers, received, e)
    /\ UNCHANGED <<subscribers, streamPc, subFrom, subTo, streamEnd>>
    /\ UNCHANGED <<guardVars, corePipe, driverVars, cfgVars, extVars>>

NextBus ==
    \/ \E s \in Streams : StreamOpen(s)
    \/ \E s \in Streams : StreamYield(s)
    \/ \E s \in Streams, how \in StreamEnds : StreamEnd(s, how)
    \/ \E who \in Emitters : Emit(who)

(***************************************************************************)
(* SpecDriver: the task of the periodic driver under start, stop and       *)
(* restart.  start() has no await; stop() suspends once, awaiting the task *)
(* it cancelled; what follows the await runs in one step.                  *)
(***************************************************************************)
\* tasks the driver may create in one behaviour
MaxTasks == 3
\* callers of start, stop and restart that may overlap
NumCallers == 2

Tasks == 1..MaxTasks

Callers == 1..NumCallers

DriverInit ==
    /\ task_state = [t \in Tasks |-> "unborn"]
    /\ cur_task = 0                                \* auto_scanner.py:18
    /\ running = FALSE                             \* auto_scanner.py:19
    /\ callPc = [c \in Callers |-> "idle"]
    /\ callWait = [c \in Callers |-> 0]

\* tasks created and not done
Alive(ts) == {t \in Tasks : ts[t] \in {"alive", "cancelling"}}

\* A start() that never looks at the task it has.
StartCreatesAlways(cur, ts) ==
    TRUE

\* auto_scanner.py:52-54: start() returns when its task is not done.
StartCreates(cur, ts) ==
    cur = 0 \/ ts[cur] = "done"

\* Task.cancel(): a request to a task that is not done
Cancelled(ts, t) ==
    IF t # 0 /\ ts[t] = "alive" THEN [ts EXCEPT ![t] = "cancelling"] ELSE ts

\* auto_scanner.py:50-58: start(), applied to the state (ts, cur, run).
DoStart(ts, cur, run) ==
    IF StartCreates(cur, ts)
      THEN \E t \in Tasks :
              /\ ts[t] = "unborn"
              /\ \A u \in Tasks : u < t => ts[u] # "unborn"
              /\ task_state' = [ts EXCEPT ![t] = "alive"]
              /\ cur_task' = t
              /\ running' = TRUE
      ELSE /\ task_state' = ts
           /\ cur_task' = cur
           /\ running' = run

\* a call of start()
Start(c) ==
    /\ callPc[c] = "idle"
    /\ DoStart(task_state, cur_task, running)
    /\ UNCHANGED <<callPc, callWait>>
    /\ UNCHANGED <<guardVars, corePipe, busVars, cfgVars, extVars>>

\* auto_scanner.py:60-75: stop() or restart() up to `await self._task`; a
\* task that is already done (or none) does not suspend the caller.
StopBegin(c, op) ==
    /\ callPc[c] = "idle"
    /\ IF cur_task = 0 \/ task_state[cur_task] = "done"
         THEN /\ IF op = "restart"
                   THEN DoStart(task_state, cur_task, FALSE)
                   ELSE /\ running' = FALSE
                        /\ UNCHANGED <<task_state, cur_task>>
              /\ UNCHANGED <<callPc, callWait>>
         ELSE /\ running' = FALSE
              /\ task_state' = Cancelled(task_state, cur_task)
              /\ callPc' = [callPc EXCEPT ![c] = op]
              /\ callWait' = [callWait EXCEPT ![c] = cur_task]
              /\ UNCHANGED cur_task
    /\ UNCHANGED <<guardVars, corePipe, busVars, cfgVars, extVars>>

\* auto_scanner.py:65-75: the awaited task is done; stop() returns, and
\* restart() goes on with start().
StopEnd(c) ==
    /\ callPc[c] \in {"stop", "restart"}
    /\ task_state[callWait[c]] = "done"
    /\ IF callPc[c] = "restart"
         THEN DoStart(task_state, cur_task, running)
         ELSE UNCHANGED <<task_state, cur_task, running>>
    /\ callPc' = [callPc EXCEPT ![c] = "idle"]
    /\ callWait' = [callWait EXCEPT ![c] = 0]
    /\ UNCHANGED <<guardVars, corePipe, busVars, cfgVars, extVars>>

\* auto_scanner.py:116-117: the cancelled loop leaves at its await.
TaskEnds(t) ==
    /\ task_state[t] = "cancelling"
    /\ task_state' = [task_state EXCEPT ![t] = "done"]
    /\ UNCHANGED <<cur_task, running, callPc, callWait>>
    /\ UNCHANGED <<guardVars, corePipe, busVars, cfgVars, extVars>>

\* a call of restart() returns to its caller
RestartReturns(c) ==
    \/ StopBegin(c, "restart") /\ callPc'[c] = "idle"
    \/ StopEnd(c) /\ callPc[c] = "restart"

NextDriver ==
    \/ \E c \in Callers : Start(c)
    \/ \E c \in Callers, op \in {"stop", "restart"} : StopBegin(c, op)
    \/ \E c \in Callers : StopEnd(c)
    \/ \E t \in Tasks : TaskEnds(t)

(***************************************************************************)
(* SpecConfig: the configuration document, its cache and its file.         *)
(***************************************************************************)
ConfigFields == {"require_arr", "auto_scan_interval", "auto_scan_unit"}

FieldValues(f) ==
    IF f = "require_arr" THEN BOOLEAN
    ELSE IF f = "auto_scan_interval" THEN Intervals
    ELSE Units

\* config_manager.py:36-41: the defaults
DefaultConfig ==
    [require_arr |-> FALSE, auto_scan_interval |-> 30,
     auto_scan_unit |-> "minutes"]

\* what a request may carry for a field: nothing (None), null (Some(None))
\* or a value v (Some(Some(v)))
Supplied(values) ==
    {None, Some(None)} \cup {Some(Some(v)) : v \in values}

\* the requests of PUT /config (api.py:72-90)
Partials ==
    [require_arr : Supplied(BOOLEAN), auto_scan_interval : Supplied(Intervals),
     auto_scan_unit : Supplied(Units)]

\* request.model_dump(exclude_unset=True) (api.py:136): the fields the
\* request carries, null or not
Given(partial, f) == partial[f] # None

\* the order in which model_dump lists the fields
FieldOrder == <<"require_arr", "auto_scan_interval", "auto_scan_unit">>

\* json.dump of one field's value
EncodeField(f, v) ==
    IF f = "require_arr" THEN (IF v THEN "true" ELSE "false")
    ELSE IF f = "auto_scan_interval" THEN (IF v = 0 THEN "0" ELSE "30")
    ELSE IF v = "seconds" THEN "\"seconds\"" ELSE "\"minutes\""

\* config_manager.py:83-85: json.dump(config.model_dump())
Dump(config) ==
    [i \in 1..Len(FieldOrder) |->
        <<FieldOrder[i], EncodeField(FieldOrder[i], config[FieldOrder[i]])>>]

\* a file cut short by a failed write
Truncated == <<>>

\* json.load succeeds on a whole document only
Parses(text) == Len(text) = Len(FieldOrder)

\* config_manager.py:69-71: AppConfig(**json.load(f))
Parse(text) ==
    [f \in ConfigFields |->
        CHOOSE v \in FieldValues(f) :
            \E i \in DOMAIN text : text[i] = <<f, EncodeField(f, v)>>]

\* config_manager.py:63-79: what load() returns for a cache and a file; a
\* file that does not parse gives the defaults.
Loaded(cache, file) ==
    IF cache # None THEN Val(cache)
    ELSE IF file # None /\ Parses(Val(file)) THEN Parse(Val(file))
    ELSE DefaultConfig

\* Python's truth value of a field's value
Truthy(f, v) ==
    IF f = "require_arr" THEN v
    ELSE IF f = "auto_scan_interval" THEN v # 0
    ELSE v # ""

\* A merge that keeps the supplied values that are truthy.
MergeTruthy(current, partial) ==
    [f \in ConfigFields |->
        IF /\ Given(partial, f)
           /\ Val(partial[f]) # None
           /\ Truthy(f, Val(Val(partial[f])))
          THEN Val(Val(partial[f]))
          ELSE current[f]]

\* config_manager.py:90-93: the supplied fields that are not None replace
\* the current ones.
Merge(current, partial) ==
    [f \in ConfigFields |->
        IF Given(partial, f) /\ Val(partial[f]) # None
          THEN Val(Val(partial[f]))
          ELSE current[f]]

ConfigInit ==
    /\ config_cache = None      \* config_manager.py:56 _config = None
    /\ config_file = None       \* no config.json yet
    /\ config_returned = None
    /\ config_loaded = None

\* api.py:100-103 with config_manager.py:63-79: GET /config calls load(); a
\* missing file is written with the defaults.
ConfigLoad ==
    /\ config_loaded' = Some(Loaded(config_cache, config_file))
    /\ config_cache' = Some(Loaded(config_cache, config_file))
    /\ config_file' = IF config_cache = None /\ config_file = None
                        THEN Some(Dump(DefaultConfig))
                        ELSE config_file
    /\ UNCHANGED config_returned
    /\ UNCHANGED <<guardVars, corePipe, busVars, driverVars, extVars>>

\* config_manager.py:88-95 with save (81-86): update(**partial); a write
\* that fails leaves a truncated file and the cache as it was.
ConfigUpdate(partial, ok) ==
    /\ LET new == Merge(Loaded(config_cache, config_file), partial)
       IN  IF ok
             THEN /\ UNCHANGED config_loaded
                  /\ config_file' = Some(Dump(new))
                  /\ config_cache' = Some(new)
                  /\ config_returned' = Some(new)
             ELSE /\ UNCHANGED config_loaded
                  /\ config_file' = Some(Truncated)
                  /\ config_cache' = Some(Loaded(config_cache, config_file))
                  /\ UNCHANGED config_returned
    /\ UNCHANGED <<guardVars, corePipe, busVars, driverVars, extVars>>

\* the process restarts: a new ConfigManager has no cache
ConfigRestart ==
    /\ config_cache' = None
    /\ UNCHANGED <<config_file, config_returned, config_loaded>>
    /\ UNCHANGED <<guardVars, corePipe, busVars, driverVars, extVars>>

NextConfig ==
    \/ ConfigLoad
    \/ \E partial \in Partials, ok \in BOOLEAN : ConfigUpdate(partial, ok)
    \/ ConfigRestart

SideInit == BusInit /\ DriverInit /\ ConfigInit

(***************************************************************************)
(* SpecLink: create_hardlink and remove_link called on any source and      *)
(* destination, in any order, while sources come and go.                   *)
(***************************************************************************)
LinkInit ==
    /\ link_fs = [d \in Dests |-> None]
    /\ link_exists = Paths
    /\ last_call = None

\* linker.py:89-124: one call of create_hardlink(source, destination).
\* repeat tells that the destination already held a link to this source.
LinkCall(p, d, lo) ==
    /\ LET r == CreateHardlink(link_fs, p, d, lo, link_exists)
       IN  /\ link_fs' = r.fs
           /\ last_call' =
                Some([source |-> p, dest |-> d, lo |-> lo, ok |-> r.ok,
                      present |-> p \in link_exists,
                      repeat |-> /\ link_fs[d] # None
                                 /\ Val(link_fs[d]).src = p,
                      was_sym |-> IsSymlink(link_fs, d)])
    /\ UNCHANGED link_exists
    /\ UNCHANGED notLinkVars

\* linker.py:160-176: one call of remove_link(destination).
UnlinkCall(d) ==
    /\ link_fs' = RemoveLink(link_fs, d, link_exists)
    /\ last_call' = None
    /\ UNCHANGED link_exists
    /\ UNCHANGED notLinkVars

\* a source file is deleted from, or restored to, the source tree
LinkSourceToggles(p) ==
    /\ link_exists' = IF p \in link_exists THEN link_exists \ {p}
                                           ELSE link_exists \cup {p}
    /\ UNCHANGED <<link_fs, last_call>>
    /\ UNCHANGED notLinkVars

NextLink ==
    \/ \E p \in Paths, d \in Dests, lo \in LinkOutcomes : LinkCall(p, d, lo)
    \/ \E d \in Dests : UnlinkCall(d)
    \/ \E p \in Paths : LinkSourceToggles(p)

(***************************************************************************)
(* SpecDirs: destinations are created under the configured roots, the      *)
(* roots are changed by PUT /config, and destinations are removed with     *)
(* their empty ancestors.  A path is the sequence of its names; the        *)
(* filesystem root is the empty sequence.                                  *)
(***************************************************************************)
\* the roots an operator may configure
RootChoices == {<<"media", "movies">>, <<"media", "tv">>, <<"library">>}

\* the folders of the catalogue titles
TitleFolders == {"Film A (2020)", "Film B (2021)"}

\* every destination a title may be linked at
DestPaths ==
    {root \o <<title, "file.mkv">> : root \in RootChoices, title \in TitleFolders}

Parent(path) == SubSeq(path, 1, Len(path) - 1)

\* path and all its ancestors below the filesystem root
RECURSIVE WithAncestors(_)
WithAncestors(path) ==
    IF path = <<>> THEN {} ELSE {path} \cup WithAncestors(Parent(path))

\* any(path.iterdir()): the directory holds a directory or an entry
NonEmpty(ds, fl, path) ==
    \E x \in ds \cup fl : Len(x) > 0 /\ Parent(x) = path

DirsInit ==
    /\ movies_path = <<"media", "movies">>
    /\ tv_path = <<"media", "tv">>
    /\ dest_dirs = {}
    /\ dest_files = {}

\* linker.py:178-189 _cleanup_empty_dirs (and the loops of scanner.py:399-411
\* and api.py:914-925): the directories left when path and its ancestors
\* are removed while they are empty, up to a configured root.  rmdir of
\* the filesystem root fails and ends the walk.
RECURSIVE CleanupEmptyDirs(_, _, _, _)
CleanupEmptyDirs(ds, fl, path, roots) ==
    IF path \in roots \/ path = <<>> THEN ds
    ELSE IF path \in ds /\ ~NonEmpty(ds, fl, path)
      THEN CleanupEmptyDirs(ds \ {path}, fl, Parent(path), roots)
      ELSE ds

\* linker.py:48-66, 99-108: a destination is linked under the movies root;
\* _ensure_dir creates its folder and every missing ancestor.
DirLink(title) ==
    /\ LET d == movies_path \o <<title, "file.mkv">>
       IN  /\ dest_files' = dest_files \cup {d}
           /\ dest_dirs' = dest_dirs \cup WithAncestors(Parent(d))
    /\ UNCHANGED <<movies_path, tv_path>>
    /\ UNCHANGED notDirVars

\* linker.py:160-176 remove_link: the entry is unlinked and its empty
\* ancestors pruned, against the roots configured now.
DirRemove(d) ==
    /\ d \in dest_files
    /\ dest_files' = dest_files \ {d}
    /\ dest_dirs' = CleanupEmptyDirs(dest_dirs, dest_files \ {d},
                                     Parent(d), {movies_path, tv_path})
    /\ UNCHANGED <<movies_path, tv_path>>
    /\ UNCHANGED notDirVars

\* api.py:113-125, 136: PUT /config with new destination roots; the roots
\* it names are created.
DirUpdateConfig(movies, tv) ==
    /\ <<movies, tv>> # <<movies_path, tv_path>>
    /\ movies # tv
    /\ movies_path' = movies
    /\ tv_path' = tv
    /\ dest_dirs' = dest_dirs \cup WithAncestors(movies) \cup WithAncestors(tv)
    /\ UNCHANGED dest_files
    /\ UNCHANGED notDirVars

NextDirs ==
    \/ \E title \in TitleFolders : DirLink(title)
    \/ \E d \in DestPaths : DirRemove(d)
    \/ \E movies \in RootChoices, tv \in RootChoices :
          DirUpdateConfig(movies, tv)

(***************************************************************************)
(* SpecMatch: match_media on any title and year, against any answers of    *)
(* the catalogue.  The i-th search of a call gets the i-th answer.         *)
(***************************************************************************)
\* searches one call may make (tmdb.py:193-206)
MaxAttempts == 3
\* the year parsed from the file name, when there is one
KnownYear == 2010

\* The parsed titles: the text, the text stripped, and whether the
\* stripped text is at most 4 characters long or not alphanumeric.
TitleTable ==
    [t1 |-> [text |-> "", clean |-> "", special |-> TRUE],
     t2 |-> [text |-> "Inception", clean |-> "Inception", special |-> FALSE],
     t3 |-> [text |-> "It", clean |-> "It", special |-> TRUE],
     t4 |-> [text |-> "Wall-E ", clean |-> "Wall-E", special |-> TRUE]]

Titles == {TitleTable[k] : k \in DOMAIN TitleTable}

Years == {None, Some(KnownYear)}

\* a search result: its catalogue id and its release year, when it has one
Candidates ==
    {[id |-> 1, year |-> Some(KnownYear)],
     [id |-> 2, year |-> Some(KnownYear + 1)],
     [id |-> 3, year |-> None]}

\* the result lists of one search: up to two distinct candidates
ResultLists ==
    {<<>>} \cup {<<c>> : c \in Candidates}
      \cup {r \in Candidates \X Candidates : r[1] # r[2]}

\* what one search may meet: a 200 answer with its results, another
\* status, or an exception of the HTTP client (network error, timeout)
Answers ==
    {[status |-> "ok", results |-> r] : r \in ResultLists}
      \cup {[status |-> "non200", results |-> <<>>],
            [status |-> "error", results |-> <<>>]}

MatchInit == match_call = None

\* tmdb.py:193-206: the searches of a call, in order
SearchAttempts(title, year) ==
    (IF year # None THEN << <<title.text, year>> >> ELSE <<>>)
      \o << <<title.text, None>> >>
      \o (IF title.special THEN << <<title.clean, year>> >> ELSE <<>>)

NoResult == [kind |-> "none", id |-> 0]

\* A choice that takes the most popular candidate whatever its year.
PickCandidateFirst(results, year) ==
    [kind |-> "hit", id |-> results[1].id]

\* tmdb.py:213-221: the first candidate of the known year, else the first
PickCandidate(results, year) ==
    IF year # None /\ \E i \in DOMAIN results : results[i].year = year
      THEN LET i == CHOOSE i \in DOMAIN results :
                       /\ results[i].year = year
                       /\ \A j \in 1..(i - 1) : results[j].year # year
           IN  [kind |-> "hit", id |-> results[i].id]
      ELSE [kind |-> "hit", id |-> results[1].id]

\* tmdb.py:36-61, 209-223: the searches from the i-th on; an exception of
\* the HTTP client is caught nowhere in tmdb.py and ends the call.
RECURSIVE RunAttempts(_, _, _, _)
RunAttempts(attempts, answers, i, year) ==
    IF i > Len(attempts) THEN NoResult
    ELSE IF answers[i].status = "error" THEN [kind |-> "raise", id |-> 0]
    ELSE IF answers[i].status = "ok" /\ answers[i].results # <<>>
      THEN PickCandidate(answers[i].results, year)
      ELSE RunAttempts(attempts, answers, i + 1, year)

\* tmdb.py:174-223 match_media
MatchMedia(title, year, answers) ==
    IF title.text = "" THEN NoResult
    ELSE RunAttempts(SearchAttempts(title, year), answers, 1, year)

\* one call of match_media
MatchCall(title, year, answers) ==
    /\ match_call = None
    /\ match_call' = Some([title |-> title, year |-> year,
                           answers |-> answers,
                           attempts |-> SearchAttempts(title, year),
                           result |-> MatchMedia(title, year, answers)])
    /\ UNCHANGED notMatchVars

\* the caller takes the answer
MatchReturn ==
    /\ match_call # None
    /\ match_call' = None
    /\ UNCHANGED notMatchVars

NextMatch ==
    \/ \E title \in Titles, year \in Years,
          answers \in [1..MaxAttempts -> Answers] :
            MatchCall(title, year, answers)
    \/ MatchReturn

(***************************************************************************)
(* SpecStats: get_stats reads the record counts with one awaited query     *)
(* each, while the sessions of scan workers and of request handlers commit *)
(* record changes.                                                         *)
(***************************************************************************)
\* the rows of media_files the check follows
NumStatRecords == 2

StatRecords == 1..NumStatRecords

Absent == "absent"

\* models.py:27-33, in the order "for status in ProcessingStatus" visits them
StatusOrder == <<"pending", "matched", "linked", "failed", "ignored", "manual">>

\* the statuses a committing session leaves on a row
WrittenStatuses == {"pending", "linked", "failed", "ignored", "manual"}

\* select(func.count(MediaFile.id)) over the committed rows
CountAll(rows) == Cardinality({r \in DOMAIN rows : rows[r] # Absent})

\* select(func.count(MediaFile.id)).where(MediaFile.status == status)
CountWhere(rows, status) ==
    Cardinality({r \in DOMAIN rows : rows[r] = status})

EmptyStats == [k \in {"total_files"} \cup Statuses |-> 0]

StatsInit ==
    /\ stat_store = [r \in StatRecords |-> Absent]
    /\ stat_pc = 0
    /\ stat_acc = EmptyStats
    /\ stat_payload = None

\* scanner.py:291-293: the first query, the total
StatsTotal ==
    /\ stat_pc = 0
    /\ stat_acc' = [EmptyStats EXCEPT !["total_files"] = CountAll(stat_store)]
    /\ stat_pc' = 1
    /\ stat_payload' = None
    /\ UNCHANGED stat_store
    /\ UNCHANGED notStatVars

\* scanner.py:296-300: one query of the loop over the statuses
StatsStatus ==
    /\ stat_pc \in 1..Len(StatusOrder)
    /\ stat_acc' = [stat_acc EXCEPT ![StatusOrder[stat_pc]] =
                        CountWhere(stat_store, StatusOrder[stat_pc])]
    /\ stat_pc' = stat_pc + 1
    /\ UNCHANGED <<stat_store, stat_payload>>
    /\ UNCHANGED notStatVars

\* scanner.py:348, 543-544: get_stats returns and stats_updated carries it
StatsEmit ==
    /\ stat_pc = Len(StatusOrder) + 1
    /\ stat_payload' = Some(stat_acc)
    /\ stat_pc' = 0
    /\ stat_acc' = EmptyStats
    /\ UNCHANGED stat_store
    /\ UNCHANGED notStatVars

\* scanner.py:186-190: a session commits a new row
StoreInsert(r) ==
    /\ stat_store[r] = Absent
    /\ stat_store' = [stat_store EXCEPT ![r] = "pending"]
    /\ UNCHANGED <<stat_pc, stat_acc, stat_payload>>
    /\ UNCHANGED notStatVars

\* scanner.py:471, api.py: a session commits the new status of a row
StoreSetStatus(r, status) ==
    /\ stat_store[r] \notin {Absent, status}
    /\ stat_store' = [stat_store EXCEPT ![r] = status]
    /\ UNCHANGED <<stat_pc, stat_acc, stat_payload>>
    /\ UNCHANGED notStatVars

\* api.py: a session commits the deletion of a row
StoreDelete(r) ==
    /\ stat_store[r] # Absent
    /\ stat_store' = [stat_store EXCEPT ![r] = Absent]
    /\ UNCHANGED <<stat_pc, stat_acc, stat_payload>>
    /\ UNCHANGED notStatVars

NextStats ==
    \/ StatsTotal
    \/ StatsStatus
    \/ StatsEmit
    \/ \E r \in StatRecords : StoreInsert(r)
    \/ \E r \in StatRecords, status \in WrittenStatuses :
          StoreSetStatus(r, status)
    \/ \E r \in StatRecords : StoreDelete(r)

(***************************************************************************)
(* SpecInsert: process_single of two workers of one batch.  In separate    *)
(* mode scan_all_sources concatenates the walk of the movies source and    *)
(* the walk of the series source, so a file below both roots is listed     *)
(* twice, once per forced type.                                            *)
(***************************************************************************)
\* the workers of the batch
NumInsWorkers == 2

\* the source paths on the list
NumInsPaths == 2

InsWorkers == 1..NumInsWorkers

InsPaths == 1..NumInsPaths

\* scanner.py:139-141: the forced type of an entry of the list
ForcedTypes == {"movie", "tv"}

\* what process_file leaves in the status of a pending record
ProcessedStatuses == {"linked", "manual", "failed"}

NoFile == [source_path |-> 0, media_type |-> "movie", status |-> "pending"]

RowsOf(rows, path) == {r \in rows : r.source_path = path}

\* models.py:55: source_path is declared unique, and the INSERT of a second
\* row with the path of a committed one fails with IntegrityError
UniqueViolated(rows, file) == RowsOf(rows, file.source_path) # {}

\* the UPDATE of a found row: the committed row takes the object's values
InsertOrUpdate(rows, file) ==
    (rows \ RowsOf(rows, file.source_path)) \cup {file}

InsertInit ==
    /\ ins_rows = {}
    /\ ins_pc = [w \in InsWorkers |-> "queued"]
    /\ ins_local = [w \in InsWorkers |-> NoFile]
    /\ ins_created = [w \in InsWorkers |-> FALSE]

\* scanner.py:445-454, 163-192: the worker looks its path up in the
\* committed rows; a path without a row gets a new pending object, added to
\* the session and not yet written
InsLookup(w, path, forced) ==
    /\ ins_pc[w] = "queued"
    /\ LET found == RowsOf(ins_rows, path)
           file == IF found # {} THEN CHOOSE r \in found : TRUE
                   ELSE [source_path |-> path, media_type |-> forced,
                         status |-> "pending"]
       IN  /\ ins_local' = [ins_local EXCEPT ![w] = file]
           /\ ins_created' = [ins_created EXCEPT ![w] = (found = {})]
           /\ ins_pc' = [ins_pc EXCEPT ![w] =
                            IF file.status = "pending" THEN "matching"
                                                       ELSE "committing"]
    /\ UNCHANGED ins_rows
    /\ UNCHANGED notInsVars

\* scanner.py:457-458: process_file sets the status of the object
InsProcess(w, status) ==
    /\ ins_pc[w] = "matching"
    /\ ins_local' = [ins_local EXCEPT ![w].status = status]
    /\ ins_pc' = [ins_pc EXCEPT ![w] = "committing"]
    /\ UNCHANGED <<ins_rows, ins_created>>
    /\ UNCHANGED notInsVars

\* scanner.py:471, 485-489: the commit writes the INSERT of a created object
\* or the UPDATE of a found one; an exception ends the worker with
\* (None, False) and its session is closed without a write
InsCommit(w) ==
    /\ ins_pc[w] = "committing"
    /\ IF ins_created[w]
         THEN IF UniqueViolated(ins_rows, ins_local[w])
                THEN /\ ins_pc' = [ins_pc EXCEPT ![w] = "raised"]
                     /\ UNCHANGED ins_rows
                ELSE /\ ins_rows' = ins_rows \cup {ins_local[w]}
                     /\ ins_pc' = [ins_pc EXCEPT ![w] = "returned"]
         ELSE /\ ins_rows' = InsertOrUpdate(ins_rows, ins_local[w])
              /\ ins_pc' = [ins_pc EXCEPT ![w] = "returned"]
    /\ UNCHANGED <<ins_local, ins_created>>
    /\ UNCHANGED notInsVars

NextInsert ==
    \/ \E w \in InsWorkers, path \in InsPaths, forced \in ForcedTypes :
          InsLookup(w, path, forced)
    \/ \E w \in InsWorkers, status \in ProcessedStatuses :
          InsProcess(w, status)
    \/ \E w \in InsWorkers : InsCommit(w)

(***************************************************************************)
(* SpecToken: the callers of TVDBService._get_token (search_series,        *)
(* get_series_details, get_episode) at the token lock.                     *)
(***************************************************************************)
\* coroutines that may ask for a token
NumTokCallers == 3

\* calls of _get_token in one behaviour
MaxTokCalls == 4

TokCallers == 1..NumTokCallers

\* A lock that lets everyone in.
LockFreeAlways(lock) == TRUE

\* tvdb.py:79 "async with self._token_lock": acquire() returns while the
\* lock is free
LockFree(lock) == lock = 0

TokenInit ==
    /\ tok_token = None
    /\ tok_valid = FALSE
    /\ tok_haskey = TRUE
    /\ tok_lock = 0
    /\ tok_pc = [c \in TokCallers |-> "idle"]
    /\ tok_got = [c \in TokCallers |-> None]
    /\ tok_calls = 0
    /\ tok_logins = 0
    /\ tok_inflight = 0
    /\ tok_lapses = 0

\* tvdb.py:118, 194, 240: a caller awaits _get_token()
TokAsk(c) ==
    /\ tok_pc[c] = "idle"
    /\ tok_calls < MaxTokCalls
    /\ tok_calls' = tok_calls + 1
    /\ tok_pc' = [tok_pc EXCEPT ![c] = "waiting"]
    /\ UNCHANGED <<tok_token, tok_valid, tok_haskey, tok_lock, tok_got,
                   tok_logins, tok_inflight, tok_lapses>>
    /\ UNCHANGED notTokVars

\* tvdb.py:79-92: the caller enters the lock; a valid token is returned at
\* once, no key gives None, else the login request is sent and the caller
\* suspends with the lock held
TokEnter(c) ==
    /\ tok_pc[c] = "waiting"
    /\ LockFree(tok_lock)
    /\ IF tok_token # None /\ tok_valid
         THEN /\ tok_got' = [tok_got EXCEPT ![c] = tok_token]
              /\ tok_pc' = [tok_pc EXCEPT ![c] = "idle"]
              /\ UNCHANGED <<tok_lock, tok_logins, tok_inflight>>
         ELSE IF ~tok_haskey
           THEN /\ tok_got' = [tok_got EXCEPT ![c] = None]
                /\ tok_pc' = [tok_pc EXCEPT ![c] = "idle"]
                /\ UNCHANGED <<tok_lock, tok_logins, tok_inflight>>
           ELSE /\ tok_lock' = c
                /\ tok_pc' = [tok_pc EXCEPT ![c] = "login"]
                /\ tok_logins' = tok_logins + 1
                /\ tok_inflight' = tok_inflight + 1
                /\ UNCHANGED tok_got
    /\ UNCHANGED <<tok_token, tok_valid, tok_haskey, tok_calls, tok_lapses>>
    /\ UNCHANGED notTokVars

\* tvdb.py:94-107: the answer of POST /login: 200 stores the token with its
\* expiry and returns it; another status or an exception returns None.  The
\* lock is released on the way out.
TokAnswer(c, ok) ==
    /\ tok_pc[c] = "login"
    /\ tok_inflight' = tok_inflight - 1
    /\ tok_lock' = 0
    /\ tok_pc' = [tok_pc EXCEPT ![c] = "idle"]
    /\ IF ok
         THEN /\ tok_token' = Some(tok_logins)
              /\ tok_valid' = TRUE
              /\ tok_got' = [tok_got EXCEPT ![c] = Some(tok_logins)]
              /\ UNCHANGED tok_lapses
         ELSE /\ tok_got' = [tok_got EXCEPT ![c] = None]
              /\ tok_lapses' = tok_lapses + 1
              /\ UNCHANGED <<tok_token, tok_valid>>
    /\ UNCHANGED <<tok_haskey, tok_calls, tok_logins>>
    /\ UNCHANGED notTokVars

\* tvdb.py:82: the clock passes _token_expires - 5 minutes
TokExpires ==
    /\ tok_valid
    /\ tok_valid' = FALSE
    /\ tok_lapses' = tok_lapses + 1
    /\ UNCHANGED <<tok_token, tok_haskey, tok_lock, tok_pc, tok_got,
                   tok_calls, tok_logins, tok_inflight>>
    /\ UNCHANGED notTokVars

\* tvdb.py:45-56: the operator sets or clears the api key
TokKeyChanges ==
    /\ tok_haskey' = ~tok_haskey
    /\ UNCHANGED <<tok_token, tok_valid, tok_lock, tok_pc, tok_got,
                   tok_calls, tok_logins, tok_inflight, tok_lapses>>
    /\ UNCHANGED notTokVars

NextToken ==
    \/ \E c \in TokCallers : TokAsk(c)
    \/ \E c \in TokCallers : TokEnter(c)
    \/ \E c \in TokCallers, ok \in BOOLEAN : TokAnswer(c, ok)
    \/ TokExpires
    \/ TokKeyChanges

(***************************************************************************)
(* SpecDiscover: the discovery of video files (scanner.py:70-134).  File   *)
(* names are sequences of characters, and the regular expressions of the   *)
(* scanner are evaluated on them.                                          *)
(***************************************************************************)
\* files below the root at one time
MaxPresent == 2

\* config.min_video_size, in the unit of the sizes of the model
MinVideoSize == 2

\* the stems of the file names
StemTable ==
    <<
       <<"A", " ", "S", "0", "1", " ", "-", " ", "N", "C", "O", "P", " ",
         "0", "1", " ", "[", "x", "]">>,
       <<"A", " ", "S", "0", "1", "E", "0", "1">>,
       <<"A", " ", "S", "0", "1", "E", "0", "1", " ", "N", "C", "O", "P">>,
       <<"A", " ", "S", "1", "0", "0", "E", "0", "1", " ", "N", "C", "E",
         "D">>,
       <<"A", " ", "c", "r", "e", "d", "i", "t", "l", "e", "s", "s">>,
       <<"A", " ", "E", "D", "1", "v", "2">>,
       <<"A">>,
       <<"a", " ", "s", "1", "e", "1", " ", "C", "r", "e", "d", "i", "t",
         "l", "e", "s", "s">>
    >>

Stems == 1..Len(StemTable)

\* the suffixes of the file names, without the dot
SuffixTable == <<
       <<"m", "k", "v">>,
       <<"M", "K", "V">>,
       <<"n", "f", "o">> >>

Suffixes == 1..Len(SuffixTable)

\* config.py:28: the configured extensions the model's suffixes can meet
video_extensions == {<<"m", "k", "v">>}

\* re.IGNORECASE: the upper-case letter of a letter
UpperOf ==
    [a |-> "A", b |-> "B", c |-> "C", d |-> "D", e |-> "E", f |-> "F",
     g |-> "G", h |-> "H", i |-> "I", j |-> "J", k |-> "K", l |-> "L",
     m |-> "M", n |-> "N", o |-> "O", p |-> "P", q |-> "Q", r |-> "R",
     s |-> "S", t |-> "T", u |-> "U", v |-> "V", w |-> "W", x |-> "X",
     y |-> "Y", z |-> "Z"]

Up(c) == IF c \in DOMAIN UpperOf THEN UpperOf[c] ELSE c

\* str.lower() on a suffix
LowerOf == [u \in {UpperOf[l] : l \in DOMAIN UpperOf} |->
               CHOOSE l \in DOMAIN UpperOf : UpperOf[l] = u]

LowerSeq(s) ==
    [i \in 1..Len(s) |-> IF s[i] \in DOMAIN LowerOf THEN LowerOf[s[i]] ELSE s[i]]

\* the character at a position, upper-cased; "" outside the string
At(s, i) == IF i \in 1..Len(s) THEN Up(s[i]) ELSE ""

IsDigit(c) == c \in {"0", "1", "2", "3", "4", "5", "6", "7", "8", "9"}

IsSpace(c) == c = " "

\* \w
IsWordChar(c) == IsDigit(c) \/ c \in DOMAIN LowerOf \/ c = "_"

AllDigits(s, from, to) == \A k \in from..to : IsDigit(At(s, k))

AllSpaces(s, from, to) == \A k \in from..to : IsSpace(At(s, k))

LiteralAt(s, i, w) == \A k \in 1..Len(w) : At(s, i + k - 1) = w[k]

\* \bw\b
WordAt(s, i, w) ==
    /\ LiteralAt(s, i, w)
    /\ ~IsWordChar(At(s, i - 1))
    /\ ~IsWordChar(At(s, i + Len(w)))

\* scanner.py:72: re.search(r'S\d{1,2}E\d{1,2}', filename, re.IGNORECASE)
HasEpisodeToken(s) ==
    \E i \in 1..Len(s) :
        /\ At(s, i) = "S"
        /\ \E n \in 1..2 :
              /\ AllDigits(s, i + 1, i + n)
              /\ At(s, i + n + 1) = "E"
              /\ IsDigit(At(s, i + n + 2))

\* scanner.py:32-36, 43: creditless | \bNCOP\b | \bNCED\b
IgnoreRegex(s) ==
    \E i \in 1..Len(s) :
        \/ LiteralAt(s, i, <<"C", "R", "E", "D", "I", "T", "L", "E", "S", "S">>)
        \/ WordAt(s, i, <<"N", "C", "O", "P">>)
        \/ WordAt(s, i, <<"N", "C", "E", "D">>)

\* scanner.py:40: ^(?:.*\s)?(?:OP|ED)\d*(?:\s|v\d|$)
OpEdRegex(s) ==
    \E i \in 1..Len(s) :
        /\ i = 1 \/ IsSpace(At(s, i - 1))
        /\ LiteralAt(s, i, <<"O", "P">>) \/ LiteralAt(s, i, <<"E", "D">>)
        /\ \E j \in (i + 2)..(Len(s) + 1) :
              /\ AllDigits(s, i + 2, j - 1)
              /\ \/ IsSpace(At(s, j))
                 \/ At(s, j) = "V" /\ IsDigit(At(s, j + 1))
                 \/ j = Len(s) + 1

\* scanner.py:69-83
should_ignore_file(filename) ==
    IF HasEpisodeToken(filename) THEN FALSE
    ELSE IgnoreRegex(filename) \/ OpEdRegex(filename)

\* parser.py:100: S\d+\s*[-–]\s*(NCOP|NCED|OP|ED)\s*(\d+)
SpecialWithSeason(s) ==
    \E i \in 1..Len(s) :
        /\ At(s, i) = "S"
        /\ \E a \in (i + 1)..Len(s) :
              /\ AllDigits(s, i + 1, a)
              /\ \E b \in (a + 1)..Len(s) :
                    /\ AllSpaces(s, a + 1, b - 1)
                    /\ At(s, b) = "-"
                    /\ \E c \in (b + 1)..Len(s),
                          w \in {<<"N", "C", "O", "P">>, <<"N", "C", "E", "D">>,
                                 <<"O", "P">>, <<"E", "D">>} :
                          /\ AllSpaces(s, b + 1, c - 1)
                          /\ LiteralAt(s, c, w)
                          /\ \E d \in (c + Len(w))..Len(s) :
                                /\ AllSpaces(s, c + Len(w), d - 1)
                                /\ IsDigit(At(s, d))

\* path.name of a file
FileName(f) == StemTable[f.stem] \o <<".">> \o SuffixTable[f.suffix]

\* the names the ignore filter drops and the stems of the special shape
IgnoredNames ==
    {n \in Stems \X Suffixes :
        should_ignore_file(StemTable[n[1]] \o <<".">> \o SuffixTable[n[2]])}

SpecialStems == {n \in Stems : SpecialWithSeason(StemTable[n])}

\* a file below the root: hidden says that a directory on its way from the
\* root, or the file itself, has a name with a leading dot
DiscFiles ==
    [stem : Stems, suffix : Suffixes,
     size : {MinVideoSize - 1, MinVideoSize, MinVideoSize + 1},
     hidden : BOOLEAN]

\* scanner.py:85-106 on a regular file
is_video_file(f) ==
    /\ LowerSeq(SuffixTable[f.suffix]) \in video_extensions
    /\ <<f.stem, f.suffix>> \notin IgnoredNames
    /\ ~(f.size < MinVideoSize)

\* scanner.py:108-134: os.walk without the hidden directories and files
scan_directory(tree) == {f \in tree : ~f.hidden /\ is_video_file(f)}

DiscoverInit ==
    /\ disc_tree = {}
    /\ disc_found = None

\* a file is put below the root
DiscFileAppears(f) ==
    /\ f \notin disc_tree
    /\ Cardinality(disc_tree) < MaxPresent
    /\ disc_tree' = disc_tree \cup {f}
    /\ disc_found' = None
    /\ UNCHANGED notDiscVars

\* a file is taken away
DiscFileDisappears(f) ==
    /\ f \in disc_tree
    /\ disc_tree' = disc_tree \ {f}
    /\ disc_found' = None
    /\ UNCHANGED notDiscVars

\* scanner.py:108-134
DiscScan ==
    /\ disc_found = None
    /\ disc_found' = Some(scan_directory(disc_tree))
    /\ UNCHANGED disc_tree
    /\ UNCHANGED notDiscVars

NextDiscover ==
    \/ \E f \in DiscFiles : DiscFileAppears(f)
    \/ \E f \in DiscFiles : DiscFileDisappears(f)
    \/ DiscScan

(***************************************************************************)
(* SpecSanitize: sanitize_filename (linker.py:13-29) on names given as     *)
(* sequences of characters.                                                *)
(***************************************************************************)
\* the longest of the short names tried
MaxNameLen == 3

\* linker.py:26-27: the length a component is cut to
MaxComponentLen == 200

\* linker.py:16
invalid_chars == {"<", ">", ":", "\"", "/", "\\", "|", "?", "*"}

\* the characters of the names tried: a letter, white space, the dot and
\* two of the invalid characters
NameChars == {"a", " ", ".", "?", "/"}

Repeated(c, n) == [i \in 1..n |-> c]

\* every name of up to MaxNameLen characters, and names around the cut
NameInputs ==
    UNION {[1..n -> NameChars] : n \in 0..MaxNameLen}
      \cup {Repeated("a", MaxComponentLen - 1) \o tail :
               tail \in [1..2 -> NameChars]}

\* linker.py:19-20: name.replace(char, '') for each invalid character
RemoveInvalid(name) == SelectSeq(name, LAMBDA c : c \notin invalid_chars)

RECURSIVE LStrip(_)
LStrip(name) ==
    IF name # <<>> /\ Head(name) = " " THEN LStrip(Tail(name)) ELSE name

RECURSIVE RStrip(_, _)
\* str.rstrip: the characters of a set are taken from the end
RStrip(name, chars) ==
    IF name # <<>> /\ name[Len(name)] \in chars
      THEN RStrip(SubSeq(name, 1, Len(name) - 1), chars)
      ELSE name

\* linker.py:13-29
sanitize_filename(name) ==
    LET kept == RemoveInvalid(name)
        trimmed == RStrip(RStrip(LStrip(kept), {" "}), {"."})
    IN  IF Len(trimmed) > MaxComponentLen
          THEN SubSeq(trimmed, 1, MaxComponentLen)
          ELSE trimmed

SanitizeInit == san_call = None

\* one call, and a second one on its result
SanitizeCall(name) ==
    /\ san_call = None
    /\ san_call' = Some([name |-> name,
                         once |-> sanitize_filename(name),
                         twice |-> sanitize_filename(sanitize_filename(name))])
    /\ UNCHANGED notSanVars

SanitizeReturn ==
    /\ san_call # None
    /\ san_call' = None
    /\ UNCHANGED notSanVars

NextSanitize ==
    \/ \E name \in NameInputs : SanitizeCall(name)
    \/ SanitizeReturn

(***************************************************************************)
(* SpecChunks: the chunk loop of scan_and_process (scanner.py:525-544) and *)
(* the progress counter of its workers (473-482) on lists longer than one  *)
(* chunk.  The tasks differ only in their position, so the state counts    *)
(* them.                                                                   *)
(***************************************************************************)
\* the longest list of discovered files
MaxFiles == 205

FileCounts == {0, 1, BATCH_SIZE, BATCH_SIZE + 1, MaxFiles}

\* A gather that returns once every task has started.
GatherReturnsWhenStarted(waiting, inside) == waiting = 0

\* scanner.py:491-492: asyncio.gather returns when every task is done
GatherReturns(waiting, inside) == waiting = 0 /\ inside = 0

\* A worker that reports every 50th file it sees enter.
ProgressDueOnOdd(count) == count % SSE_UPDATE_FREQUENCY = 1

\* scanner.py:481: count % self.SSE_UPDATE_FREQUENCY == 0
ProgressDue(count) == count % SSE_UPDATE_FREQUENCY = 0

\* workers of one scan that an exception ends
MaxWorkerFailures == 1

ChunksInit ==
    /\ chk_pc = "idle"
    /\ chk_files = 0
    /\ chk_start = 0
    /\ chk_waiting = 0
    /\ chk_inside = 0
    /\ chk_started = 0
    /\ chk_finished = 0
    /\ chk_stats = 0
    /\ chk_counter = 0
    /\ chk_progress = <<>>

\* scanner.py:496-530: the list is discovered, scan_progress(0, total) is
\* emitted and the tasks of the first chunk are created
ChunkScanStart(n) ==
    /\ chk_pc = "idle"
    /\ chk_files' = n
    /\ chk_start' = 0
    /\ chk_waiting' = Min(BATCH_SIZE, n)
    /\ chk_progress' = <<0>>
    /\ chk_pc' = IF n = 0 THEN "sweep" ELSE "chunk"
    /\ UNCHANGED <<chk_inside, chk_started, chk_finished, chk_stats,
                   chk_counter>>
    /\ UNCHANGED notChkVars

\* scanner.py:445: a task takes a permit of the semaphore
ChunkWorkerEnter ==
    /\ chk_pc = "chunk"
    /\ chk_waiting > 0
    /\ chk_inside < PARALLEL_WORKERS
    /\ chk_waiting' = chk_waiting - 1
    /\ chk_inside' = chk_inside + 1
    /\ chk_started' = chk_started + 1
    /\ UNCHANGED <<chk_pc, chk_files, chk_start, chk_finished, chk_stats,
                   chk_counter, chk_progress>>
    /\ UNCHANGED notChkVars

\* scanner.py:471-484: the task commits, counts itself under the lock,
\* emits scan_progress when the count is due, and returns.  ok = FALSE: an
\* exception ends the task before it counts itself (485-489).
ChunkWorkerLeave(ok) ==
    /\ chk_pc = "chunk"
    /\ chk_inside > 0
    /\ ~ok => chk_finished - chk_counter < MaxWorkerFailures
    /\ chk_inside' = chk_inside - 1
    /\ chk_finished' = chk_finished + 1
    /\ IF ok
         THEN /\ chk_counter' = chk_counter + 1
              /\ chk_progress' = IF ProgressDue(chk_counter + 1)
                                   THEN Append(chk_progress, chk_counter + 1)
                                   ELSE chk_progress
         ELSE UNCHANGED <<chk_counter, chk_progress>>
    /\ UNCHANGED <<chk_pc, chk_files, chk_start, chk_waiting, chk_started,
                   chk_stats>>
    /\ UNCHANGED notChkVars

\* scanner.py:528-544: _process_batch returns, stats_updated is emitted and
\* the loop goes on to the next chunk.  ok = FALSE: get_stats raises and the
\* scan ends with that exception.
ChunkGathered(ok) ==
    /\ chk_pc = "chunk"
    /\ GatherReturns(chk_waiting, chk_inside)
    /\ IF ok
         THEN /\ chk_stats' = chk_stats + 1
              /\ chk_start' = chk_start + BATCH_SIZE
              /\ IF chk_start + BATCH_SIZE < chk_files
                   THEN /\ chk_waiting' = chk_waiting +
                               Min(BATCH_SIZE, chk_files - (chk_start + BATCH_SIZE))
                        /\ UNCHANGED chk_pc
                   ELSE /\ chk_pc' = "sweep"
                        /\ UNCHANGED chk_waiting
         ELSE /\ chk_pc' = "raised"
              /\ UNCHANGED <<chk_stats, chk_start, chk_waiting>>
    /\ UNCHANGED <<chk_files, chk_inside, chk_started, chk_finished,
                   chk_counter, chk_progress>>
    /\ UNCHANGED notChkVars

\* scanner.py:546-557: the scan ends; the next one starts anew
ChunkScanEnds ==
    /\ chk_pc \in {"sweep", "raised"}
    /\ chk_inside = 0
    /\ chk_pc' = "idle"
    /\ chk_files' = 0
    /\ chk_start' = 0
    /\ chk_waiting' = 0
    /\ chk_started' = 0
    /\ chk_finished' = 0
    /\ chk_stats' = 0
    /\ chk_counter' = 0
    /\ chk_progress' = <<>>
    /\ UNCHANGED chk_inside
    /\ UNCHANGED notChkVars

NextChunks ==
    \/ \E n \in FileCounts : ChunkScanStart(n)
    \/ ChunkWorkerEnter
    \/ \E ok \in BOOLEAN : ChunkWorkerLeave(ok)
    \/ \E ok \in BOOLEAN : ChunkGathered(ok)
    \/ ChunkScanEnds

ExtInit == LinkInit /\ DirsInit /\ MatchInit /\ StatsInit /\ InsertInit /\ TokenInit /\ DiscoverInit /\ SanitizeInit /\ ChunksInit

Init == GuardInit /\ PipeInit /\ SideInit /\ ExtInit

\* A download client adds a file under the source root, or a file goes away.
SourceAppears(p) ==
    /\ p \notin exists
    /\ exists' = exists \cup {p}
    /\ UNCHANGED <<store, fs, workerVars, scanVars, guardVars, handled, poolVars, sideVars>>

SourceDisappears(p) ==
    /\ p \in exists
    /\ exists' = exists \ {p}
    /\ UNCHANGED <<store, fs, workerVars, scanVars, guardVars, handled, poolVars, sideVars>>

\* the workers of a chunk, created by gather (scanner.py:491-492)
WorkersOf(files, i) ==
    [p \in Paths |-> IF p \in Batch(files, i) THEN "queued" ELSE "none"]

\* scanner.py:496-523: discovery, the summary, scan_started and the first
\* scan_progress, then the first chunk's workers.  scope is the directory
\* asked for (all of the source root when none is given).
StartScan(origin, scope) ==
    /\ scanPc = "idle"
    /\ LET files == SeqOfSet(exists \cap scope)
       IN  /\ video_files' = files
           /\ stats' = ZeroStats(Len(files))
           /\ events' = << Event("scan_started", <<>>),
                           Event("scan_progress", <<0, Len(files)>>) >>
           /\ batchStart' = 1
           /\ wpc' = WorkersOf(files, 1)
           /\ scanPc' = IF Len(files) = 0 THEN "sweep" ELSE "chunk"
    /\ scanOrigin' = origin
    /\ processed_counter' = 0
    /\ scanEnd' = "none"
    /\ wlocal' = NoLocals
    /\ wdirty' = [p \in Paths |-> {}]
    /\ wcreated' = [p \in Paths |-> FALSE]
    /\ wseen' = [p \in Paths |-> "none"]
    /\ UNCHANGED <<storeVars, guardVars, handled, poolVars, sideVars>>

\* workers inside "async with semaphore"
WorkersInside == Cardinality({p \in Paths : wpc[p] \in {"matching", "committing"}})

\* A worker that let its exception escape would end the whole scan.
ExceptionEscapesWorkerMutant == TRUE

\* scanner.py:486-492: "except Exception" returns (None, False) and gather
\* collects with return_exceptions=True, so no exception of a worker's body
\* reaches scan_and_process.
ExceptionEscapesWorker == FALSE

\* scan_and_process is left, by return or by an exception: its locals are
\* gone, its tasks too, their sessions closed without a commit.
ScanEnds(how) ==
    /\ scanPc' = "idle"
    /\ scanEnd' = how
    /\ scanOrigin' = "none"
    /\ video_files' = <<>>
    /\ batchStart' = 0
    /\ stats' = ZeroStats(0)
    /\ processed_counter' = 0
    /\ wpc' = IdleWorkers
    /\ wlocal' = NoLocals
    /\ wdirty' = [p \in Paths |-> {}]
    /\ wcreated' = [p \in Paths |-> FALSE]
    /\ wseen' = [p \in Paths |-> "none"]

\* A worker's body raised outside process_file: nothing of its session is
\* committed and the task returns (None, False).
WorkerRaises(p) ==
    IF ExceptionEscapesWorker
      THEN /\ ScanEnds("raised by a worker")
           /\ UNCHANGED events
      ELSE /\ wpc' = [wpc EXCEPT ![p] = "failed"]
           /\ wlocal' = [wlocal EXCEPT ![p] = NewMediaFile(p)]
           /\ wdirty' = [wdirty EXCEPT ![p] = {}]
           /\ wcreated' = [wcreated EXCEPT ![p] = FALSE]
           /\ wseen' = [wseen EXCEPT ![p] = "none"]
           /\ UNCHANGED scanVars

\* A scan that also took up failed records.
ShouldProcessMutant(rec) == rec.status \in {"pending", "failed"}

\* scanner.py:457: only pending records are processed.
ShouldProcess(rec) == rec.status = "pending"

\* scanner.py:445-454 with get_or_create_file (147-192): the worker takes a
\* permit, opens its session and looks the path up; a new path is parsed and
\* added to the session as a pending record.  ok = FALSE: the lookup raises.
WorkerLookup(p, ok) ==
    /\ scanPc = "chunk"
    /\ wpc[p] = "queued"
    /\ WorkersInside < PARALLEL_WORKERS
    /\ IF ~ok
         THEN WorkerRaises(p)
         ELSE LET found == p \in DOMAIN store
                  rec == IF found THEN store[p] ELSE NewMediaFile(p)
              IN  /\ wlocal' = [wlocal EXCEPT ![p] = rec]
                  /\ wdirty' = [wdirty EXCEPT ![p] = {}]
                  /\ wcreated' = [wcreated EXCEPT ![p] = ~found]
                  /\ wseen' = [wseen EXCEPT ![p] =
                                 IF found THEN rec.status ELSE "absent"]
                  /\ wpc' = [wpc EXCEPT ![p] =
                               IF ShouldProcess(rec) THEN "matching"
                                                     ELSE "committing"]
                  /\ stats' = IF found THEN stats
                              ELSE [stats EXCEPT !.new = @ + 1]
                  /\ UNCHANGED <<scanPc, scanOrigin, video_files, batchStart,
                                 processed_counter, events, scanEnd>>
    /\ UNCHANGED <<storeVars, guardVars, handled, poolVars, sideVars>>

\* what one run of process_file meets: the matcher's answer and, for a hit,
\* the answer of link(2)
ProcOutcomes(media_type) ==
    {o \in [mo : MatchOutcomes(media_type), lo : LinkOutcomes] :
        o.mo.kind # "hit" => o.lo = "ok"}

\* A summary that does not count the records left for manual correction.
CountStatusSkipsManual(st, rec) ==
    [st EXCEPT !.processed = @ + 1,
               !.linked = IF rec.status = "linked" THEN @ + 1 ELSE @,
               !.failed = IF rec.status = "failed" THEN @ + 1 ELSE @]

\* scanner.py:463-468
CountStatus(st, rec) ==
    [st EXCEPT !.processed = @ + 1,
               !.linked = IF rec.status = "linked" THEN @ + 1 ELSE @,
               !.failed = IF rec.status = "failed" THEN @ + 1 ELSE @,
               !.manual = IF rec.status = "manual" THEN @ + 1 ELSE @]

\* scanner.py:458-468: the matcher answers; process_file updates the object
\* in the session and links on disk; the summary is counted.
WorkerProcess(p, o) ==
    /\ scanPc = "chunk"
    /\ wpc[p] = "matching"
    /\ o \in ProcOutcomes(wlocal[p].media_type)
    /\ LET r == ProcessFile(wlocal[p], p, o.mo, o.lo, fs, exists)
       IN  /\ wlocal' = [wlocal EXCEPT ![p] = r.rec]
           /\ wdirty' = [wdirty EXCEPT ![p] =
                           {f \in Fields : r.rec[f] # wlocal[p][f]}]
           /\ fs' = r.fs
           /\ stats' = CountStatus(stats, r.rec)
    /\ wpc' = [wpc EXCEPT ![p] = "committing"]
    /\ UNCHANGED <<store, exists, wcreated, wseen, scanPc, scanOrigin,
                   video_files, batchStart, processed_counter, events,
                   scanEnd, guardVars, handled, poolVars, sideVars>>

\* What session.commit() writes: an INSERT of a created object, else an
\* UPDATE of the attributes that changed; nothing when nothing changed.
CommitFails(p) ==
    \/ wcreated[p] /\ p \in DOMAIN store                   \* IntegrityError
    \/ ~wcreated[p] /\ wdirty[p] # {} /\ p \notin DOMAIN store  \* StaleDataError

Committed(st, p, rec, created, dirty) ==
    IF created
      THEN [q \in DOMAIN st \cup {p} |-> IF q = p THEN rec ELSE st[q]]
      ELSE IF dirty = {} THEN st
      ELSE [st EXCEPT ![p] =
              [f \in Fields |-> IF f \in dirty THEN rec[f] ELSE st[p][f]]]

\* scanner.py:471-484: commit, count the file, emit scan_progress at every
\* SSE_UPDATE_FREQUENCY-th, return and release the permit.  ok = FALSE: the
\* commit raises.
WorkerCommit(p, ok) ==
    /\ scanPc = "chunk"
    /\ wpc[p] = "committing"
    /\ IF ~ok \/ CommitFails(p)
         THEN /\ WorkerRaises(p)
              /\ UNCHANGED store
         ELSE /\ store' = Committed(store, p, wlocal[p], wcreated[p], wdirty[p])
              /\ processed_counter' = processed_counter + 1
              /\ events' =
                   IF (processed_counter + 1) % SSE_UPDATE_FREQUENCY = 0
                     THEN Append(events,
                                 Event("scan_progress",
                                       <<processed_counter + 1, Len(video_files)>>))
                     ELSE events
              /\ wpc' = [wpc EXCEPT ![p] = "returned"]
              /\ wlocal' = [wlocal EXCEPT ![p] = NewMediaFile(p)]
              /\ wdirty' = [wdirty EXCEPT ![p] = {}]
              /\ wcreated' = [wcreated EXCEPT ![p] = FALSE]
              /\ UNCHANGED <<wseen, scanPc, scanOrigin, video_files,
                             batchStart, stats, scanEnd>>
    /\ UNCHANGED <<fs, exists, guardVars, handled, poolVars, sideVars>>

ChunkFinished ==
    \A p \in Batch(video_files, batchStart) : wpc[p] \in {"returned", "failed"}

\* scanner.py:528-544: gather returned; the stats snapshot is emitted and the
\* next chunk starts, or the sweep after the last one.  ok = FALSE: the
\* snapshot query raises and scan_and_process ends with that exception.
ChunkDone(ok) ==
    /\ scanPc = "chunk"
    /\ ChunkFinished
    /\ IF ~ok
         THEN /\ ScanEnds("raised")
              /\ UNCHANGED events
         ELSE /\ events' = Append(events, Event("stats_updated", <<>>))
              /\ batchStart' = batchStart + BATCH_SIZE
              /\ wpc' = WorkersOf(video_files, batchStart + BATCH_SIZE)
              /\ scanPc' = IF batchStart + BATCH_SIZE > Len(video_files)
                             THEN "sweep" ELSE "chunk"
              /\ UNCHANGED <<wlocal, wdirty, wcreated, wseen, scanOrigin,
                             video_files, stats, processed_counter, scanEnd>>
    /\ UNCHANGED <<storeVars, guardVars, handled, poolVars, sideVars>>

\* A sweep that took only the linked records.
OrphansLinkedOnly(st, ex) ==
    {p \in DOMAIN st : p \notin ex /\ st[p].status = "linked"}

\* records whose source file is gone (scanner.py:386-390)
Orphans(st, ex) == {p \in DOMAIN st : p \notin ex}

RECURSIVE UnlinkAll(_, _, _, _)
\* scanner.py:391-413: the destination of each orphan is unlinked
UnlinkAll(fsys, st, S, ex) ==
    IF S = {} THEN fsys
    ELSE LET p == CHOOSE x \in S : TRUE
         IN  UnlinkAll(RemoveRecordLink(fsys, st[p], ex), st, S \ {p}, ex)

RECURSIVE Repeat(_, _)
Repeat(e, n) == IF n = 0 THEN <<>> ELSE <<e>> \o Repeat(e, n - 1)

\* A scan that announced its end before the final stats.
CompletionEventsSwapped(summary) ==
    << Event("scan_completed", summary), Event("stats_updated", <<>>) >>

\* scanner.py:552-555: the final stats_updated, then scan_completed with the
\* summary.
CompletionEvents(summary) ==
    << Event("stats_updated", <<>>), Event("scan_completed", summary) >>

\* scanner.py:546-557 with cleanup_deleted_files (374-431): the orphan sweep
\* over the whole store, then the final stats and scan_completed with the
\* summary.  ok = FALSE: a query of the sweep raises.
Sweep(ok) ==
    /\ scanPc = "sweep"
    /\ IF ~ok
         THEN /\ ScanEnds("raised")
              /\ UNCHANGED <<events, store, fs>>
         ELSE LET gone == Orphans(store, exists)
                  n == Cardinality(gone)
                  summary == [stats EXCEPT !.deleted = n]
              IN  /\ fs' = UnlinkAll(fs, store, gone, exists)
                  /\ store' = [q \in DOMAIN store \ gone |-> store[q]]
                  /\ events' = events
                        \o Repeat(Event("file_deleted", <<>>), n)
                        \o (IF n > 0 THEN <<Event("stats_updated", <<>>)>>
                                     ELSE <<>>)
                        \o CompletionEvents(summary)
                  /\ ScanEnds("completed")
    /\ UNCHANGED <<exists, guardVars, handled, poolVars, sideVars>>

\* auto_scanner.py:60-68 and 116-117: stop() or restart() cancels the
\* driver's task while it awaits scan_and_process; the CancelledError is
\* raised at the scan's current await and, through gather, in every worker.
CancelScan ==
    /\ scanPc # "idle"
    /\ scanOrigin = "auto"
    /\ ScanEnds("cancelled")
    /\ UNCHANGED <<events, storeVars, guardVars, handled, poolVars, sideVars>>

(***************************************************************************)
(* Spec: the operator's record operations (api.py:442-692, 803-855).  Each *)
(* handler is one action on the committed store and the filesystem: what   *)
(* its session committed when it returns.                                  *)
(***************************************************************************)
\* api.py:442-465 with MediaFileUpdate (models.py:103-111): the fields a
\* PATCH body sets, a null included (exclude_unset keeps every key sent).
\* One more request to the files API is served; the model follows
\* behaviours with up to MaxRequests of them.
Handled ==
    /\ handled < MaxRequests
    /\ handled' = handled + 1

PatchInputs ==
    { [status |-> "linked"],
      [status |-> "pending"] }

UpdateFile(p, upd) ==
    /\ Handled
    /\ p \in DOMAIN store
    /\ store' = [store EXCEPT ![p] =
                   [f \in Fields |-> IF f \in DOMAIN upd THEN upd[f]
                                                         ELSE store[p][f]]]
    /\ UNCHANGED <<fs, exists, workerVars, scanVars, guardVars, poolVars, sideVars>>

\* api.py:468-486
DeleteFile(p) ==
    /\ Handled
    /\ p \in DOMAIN store
    /\ fs' = RemoveRecordLink(fs, store[p], exists)
    /\ store' = [q \in DOMAIN store \ {p} |-> store[q]]
    /\ UNCHANGED <<exists, workerVars, scanVars, guardVars, poolVars, sideVars>>

\* api.py:489-509
IgnoreFile(p) ==
    /\ Handled
    /\ p \in DOMAIN store
    /\ store' = [store EXCEPT ![p].status = "ignored"]
    /\ UNCHANGED <<fs, exists, workerVars, scanVars, guardVars, poolVars, sideVars>>

\* api.py:528-547: the record re-parsed and put back to pending.
Reparsed(rec, p) ==
    [rec EXCEPT !.destination_path = None,
                !.parsed_season = ParseOf(p).season,
                !.parsed_episode = ParseOf(p).episode,
                !.media_type = IF ParseOf(p).media_type # "unknown"
                                 THEN ParseOf(p).media_type ELSE @,
                !.status = "pending",
                !.error_message = None,
                !.tmdb_id = None,
                !.tmdb_title = None]

\* api.py:523-551 and 578-605: the old link removed, the record re-parsed
\* and processed again: <<record in memory, filesystem>>.
Reprocessed(rec, p, o, fsys, ex) ==
    ProcessFile(Reparsed(rec, p), p, o.mo, o.lo,
                RemoveRecordLink(fsys, rec, ex), ex)

\* api.py:512-559
ReprocessFile(p, o) ==
    /\ Handled
    /\ p \in DOMAIN store
    /\ o \in ProcOutcomes(Reparsed(store[p], p).media_type)
    /\ LET r == Reprocessed(store[p], p, o, fs, exists)
       IN  /\ store' = [store EXCEPT ![p] = r.rec]
           /\ fs' = r.fs
    /\ UNCHANGED <<exists, workerVars, scanVars, guardVars, poolVars, sideVars>>

AllProcOutcomes == UNION {ProcOutcomes(t) : t \in MediaTypes}

RECURSIVE ReprocessEach(_, _, _, _, _)
\* api.py:578-612: the loop over the selected records, in the order of
\* files (a sequence of paths); out gives what each record's processing
\* meets.  <<store as the session holds it, filesystem>>.
ReprocessEach(st, fsys, files, out, ex) ==
    IF files = <<>> THEN [store |-> st, fs |-> fsys]
    ELSE LET p == Head(files)
             r == Reprocessed(st[p], p, out[p], fsys, ex)
         IN  ReprocessEach([st EXCEPT ![p] = r.rec], r.fs, Tail(files), out, ex)

OutcomesFit(st, S, out) ==
    \A p \in S : out[p] \in ProcOutcomes(Reparsed(st[p], p).media_type)

\* api.py:562-625: every manual or failed record is reprocessed; one commit
\* after the loop.
ReprocessAllFiles ==
    /\ Handled
    /\ LET S == {p \in DOMAIN store : store[p].status \in {"manual", "failed"}}
       IN  /\ S # {}
           /\ \E out \in [S -> AllProcOutcomes] :
                 /\ OutcomesFit(store, S, out)
                 /\ LET r == ReprocessEach(store, fs, SeqOfSet(S), out, exists)
                    IN  /\ store' = r.store
                        /\ fs' = r.fs
           /\ UNCHANGED <<exists, workerVars, scanVars, guardVars, poolVars, sideVars>>

\* api.py:822-835: one pass of the retry loop: the record is reset and its
\* link removed, the session commits, then process_file runs.
RetryReset(rec) ==
    [rec EXCEPT !.status = "pending", !.error_message = None,
                !.destination_path = None]

RECURSIVE RetryEach(_, _, _, _, _)
\* api.py:822-844: the commit at line 832 of a pass writes the record just
\* reset together with what process_file left in the session in the pass
\* before; nothing is committed after the last process_file.
\* <<committed store, filesystem>>.
RetryEach(st, fsys, files, out, ex) ==
    IF files = <<>> THEN [store |-> st, fs |-> fsys]
    ELSE LET p == Head(files)
             reset == RetryReset(st[p])
             r == ProcessFile(reset, p, out[p].mo, out[p].lo,
                              RemoveRecordLink(fsys, st[p], ex), ex)
             kept == IF Tail(files) = <<>> THEN reset ELSE r.rec
         IN  RetryEach([st EXCEPT ![p] = kept], r.fs, Tail(files), out, ex)

\* api.py:803-855
RetryFailed ==
    /\ Handled
    /\ LET S == {p \in DOMAIN store :
                   store[p].status \in {"failed", "manual", "pending"}}
       IN  /\ S # {}
           /\ \E out \in [S -> AllProcOutcomes] :
                 /\ \A p \in S : out[p] \in ProcOutcomes(store[p].media_type)
                 /\ LET r == RetryEach(store, fs, SeqOfSet(S), out, exists)
                    IN  /\ store' = r.store
                        /\ fs' = r.fs
           /\ UNCHANGED <<exists, workerVars, scanVars, guardVars, poolVars, sideVars>>

\* models.py:149-155 ManualMatchRequest bodies
MatchRequests ==
    {r \in [tmdb_id : TmdbIds, media_type : {"movie", "tv"},
             season : {None, Some(1)}, episode : {None, Some(1)}] :
        (r.season = None) <=> (r.episode = None)}

\* api.py:645-676: the record as the handler commits it at line 678.
ManuallyMatched(rec, req) ==
    [rec EXCEPT !.tmdb_title = Some(req.tmdb_id),
                !.tmdb_id = Some(req.tmdb_id),
                !.media_type = req.media_type,
                !.parsed_season = IF req.season # None THEN req.season ELSE @,
                !.parsed_episode = IF req.episode # None THEN req.episode ELSE @,
                !.status = "matched",
                !.error_message = None]

\* api.py:630-692, for an id the catalogue knows (it answers 404 for any
\* other, and nothing changes).  The record is committed as matched; the old
\* link is removed and create_link then works on the object in memory and on
\* disk, and the session is closed without another commit
\* (models.py:185-188).
ManualMatch(p, req, lo) ==
    /\ Handled
    /\ p \in DOMAIN store
    /\ LET rec == ManuallyMatched(store[p], req)
           r == CreateLink(rec, p, lo, RemoveRecordLink(fs, rec, exists), exists)
       IN  /\ store' = [store EXCEPT ![p] = rec]
           /\ fs' = r.fs
    /\ UNCHANGED <<exists, workerVars, scanVars, guardVars, poolVars, sideVars>>

Scopes == {Paths} \cup {{p} : p \in Paths}

(***************************************************************************)
(* Spec: scans over a source root whose files come and go, with every      *)
(* failure a worker or the orchestrator can meet.                          *)
(***************************************************************************)
Next ==
    \/ \E p \in Paths : SourceAppears(p)
    \/ \E p \in Paths : SourceDisappears(p)
    \/ \E o \in {"operator", "auto"}, s \in Scopes : StartScan(o, s)
    \/ \E p \in Paths, ok \in BOOLEAN : WorkerLookup(p, ok)
    \/ \E p \in Paths, o \in AllProcOutcomes : WorkerProcess(p, o)
    \/ \E p \in Paths, ok \in BOOLEAN : WorkerCommit(p, ok)
    \/ \E ok \in BOOLEAN : ChunkDone(ok)
    \/ \E ok \in BOOLEAN : Sweep(ok)
    \/ CancelScan

Spec == Init /\ [][Next]_vars

\* The steps of a running scan: each awaits the database, the catalogue or
\* the filesystem, which answer or raise, and the event loop resumes the
\* task.
ScanStep ==
    \/ \E p \in Paths, ok \in BOOLEAN : WorkerLookup(p, ok)
    \/ \E p \in Paths, o \in AllProcOutcomes : WorkerProcess(p, o)
    \/ \E p \in Paths, ok \in BOOLEAN : WorkerCommit(p, ok)
    \/ \E ok \in BOOLEAN : ChunkDone(ok)
    \/ \E ok \in BOOLEAN : Sweep(ok)

SpecLive == Init /\ [][Next]_vars /\ WF_vars(ScanStep)

(***************************************************************************)
(* SpecFiles: the files API at work on the records, between and during the *)
(* operator's scans of a source root whose files stay.                     *)
(***************************************************************************)
NextFiles ==
    \/ StartScan("operator", Paths)
    \/ \E p \in Paths : WorkerLookup(p, TRUE)
    \/ \E p \in Paths, o \in AllProcOutcomes : WorkerProcess(p, o)
    \/ \E p \in Paths : WorkerCommit(p, TRUE)
    \/ ChunkDone(TRUE)
    \/ Sweep(TRUE)
    \/ \E p \in Paths, u \in PatchInputs : UpdateFile(p, u)
    \/ \E p \in Paths : DeleteFile(p)
    \/ \E p \in Paths : IgnoreFile(p)
    \/ \E p \in Paths, o \in AllProcOutcomes : ReprocessFile(p, o)
    \/ ReprocessAllFiles
    \/ RetryFailed
    \/ \E p \in Paths, req \in MatchRequests, lo \in LinkOutcomes :
          ManualMatch(p, req, lo)

SpecFiles == Init /\ [][NextFiles]_vars

(***************************************************************************)
(* SpecPool: the tasks of a scan's chunks at its semaphore                  *)
(* (scanner.py:444-492, 521-537).  The tasks differ only in their          *)
(* position, so the state counts how many are at each.                     *)
(***************************************************************************)
\* scanner.py:521 and 490-492: a scan creates its semaphore,
\* asyncio.Semaphore(PARALLEL_WORKERS), and one task per file of its first
\* chunk.
PoolStart(n) ==
    /\ pool = NoTasks
    /\ semaphore' = PARALLEL_WORKERS
    /\ pool' = [NoTasks EXCEPT !["waiting"] = n]
    /\ UNCHANGED <<guardVars, storeVars, workerVars, scanVars, handled,
                   sideVars>>

\* scanner.py:445 "async with semaphore": acquire() returns only while a
\* permit is free, and takes it.
PoolEnter ==
    /\ pool["waiting"] > 0
    /\ semaphore > 0
    /\ semaphore' = semaphore - 1
    /\ pool' = [pool EXCEPT !["waiting"] = @ - 1, !["inside"] = @ + 1]
    /\ UNCHANGED <<guardVars, storeVars, workerVars, scanVars, handled,
                   sideVars>>

\* A context manager that gave its permit back only on a normal exit.
ReleasedOnExitMutant(how, permits) ==
    IF how = "returned" THEN permits + 1 ELSE permits

\* scanner.py:445-488: __aexit__ of the semaphore runs on every way out of
\* the block, the return at 484 and an exception of the body alike.
ReleasedOnExit(how, permits) ==
    permits + 1

\* scanner.py:446-488: the body of one task ends, by return or by raising.
PoolLeave(how) ==
    /\ pool["inside"] > 0
    /\ semaphore' = ReleasedOnExit(how, semaphore)
    /\ pool' = [pool EXCEPT !["inside"] = @ - 1, ![how] = @ + 1]
    /\ UNCHANGED <<guardVars, storeVars, workerVars, scanVars, handled,
                   sideVars>>

\* scanner.py:492 and 528-537: gather has every result; the next chunk's
\* tasks, n of them, start at the same semaphore (n = 0: that was the scan's
\* last chunk).
PoolGathered(n) ==
    /\ pool # NoTasks
    /\ pool["waiting"] = 0
    /\ pool["inside"] = 0
    /\ pool' = [NoTasks EXCEPT !["waiting"] = n]
    /\ UNCHANGED <<semaphore, guardVars, storeVars, workerVars, scanVars,
                   handled, sideVars>>

NextPool ==
    \/ \E n \in 1..NumPoolFiles : PoolStart(n)
    \/ PoolEnter
    \/ \E how \in {"returned", "raised"} : PoolLeave(how)
    \/ \E n \in 0..NumPoolFiles : PoolGathered(n)

SpecPool == Init /\ [][NextPool]_vars

SpecBus == Init /\ [][NextBus]_vars

SpecDriver == Init /\ [][NextDriver]_vars

SpecConfig == Init /\ [][NextConfig]_vars

SpecLink == Init /\ [][NextLink]_vars

SpecDirs == Init /\ [][NextDirs]_vars

SpecMatch == Init /\ [][NextMatch]_vars

(***************************************************************************)
(* SpecGuard: the requests to POST /scan, the background scan tasks, the   *)
(* periodic driver and the configuration.                                  *)
(***************************************************************************)
NextGuard ==
    \/ \E c \in Clients : ScanFilesCheck(c)
    \/ \E c \in Clients, radarr_ok \in BOOLEAN, sonarr_ok \in BOOLEAN :
          ScanFilesAfterArr(c, radarr_ok, sonarr_ok)
    \/ \E outcome \in {"returned", "raised"} : RunScanBackgroundEnd(outcome)
    \/ AutoScannerIterate
    \/ AutoScanEnd
    \/ \E arr \in BOOLEAN, enabled \in BOOLEAN, interval \in Intervals,
          unit \in Units : UpdateConfig(arr, enabled, interval, unit)

SpecGuard == Init /\ [][NextGuard]_vars

SpecStats == Init /\ [][NextStats]_vars

SpecInsert == Init /\ [][NextInsert]_vars

SpecToken == Init /\ [][NextToken]_vars

SpecDiscover == Init /\ [][NextDiscover]_vars

SpecSanitize == Init /\ [][NextSanitize]_vars

SpecChunks == Init /\ [][NextChunks]_vars

\* the driver's task is scheduled: a loop that can take its next pass takes it
SpecGuardLive == Init /\ [][NextGuard]_vars /\ WF_vars(AutoScannerIterate)

\* scan_and_process executions in progress, whoever started them
NumScansRunning == opRunning + (IF autoPc = "scanning" THEN 1 ELSE 0)


(***************************************************************************)
(* The properties.                                                         *)
(***************************************************************************)
NonPending == Statuses \ {"pending"}

NoMatch == [kind |-> "none", id |-> 0, media_type |-> "unknown"]

LastEvent == events[Len(events)]

\* the last event is scan_completed and carries the seven summary counts
CompletedWithSummary ==
    /\ events # <<>>
    /\ LastEvent.type = "scan_completed"
    /\ DOMAIN LastEvent.data = DOMAIN ZeroStats(0)

\* C1: at most one scan is in progress at any time, whatever the
\* interleaving of POST /scan requests and iterations of the periodic driver.
C1_AtMostOneScan == NumScansRunning <= 1

\* C2: whenever a scan task started by the operator ends, by return or by
\* an exception, the in-progress guard is clear afterwards; the guard is
\* never set while no such task is left, so the next request is accepted.
C2_GuardCleared ==
    /\ [][opRunning' < opRunning => ~scan_in_progress']_vars
    /\ [](opRunning = 0 => ~scan_in_progress)

C2_Witness == lastEnd = "raised" /\ opRunning = 0 /\ ~scan_in_progress

\* C3: every record whose status is linked has a destination_path and a
\* tmdb_id.
C3_LinkedHasDestination ==
    \A p \in DOMAIN store :
        store[p].status = "linked" =>
            /\ store[p].destination_path # None
            /\ store[p].tmdb_id # None

\* C4: for every linked record, the entry at its destination is there and
\* refers to the record's own source.
C4_LinkRefersToSource ==
    \A p \in DOMAIN store :
        (store[p].status = "linked" /\ store[p].destination_path # None) =>
            /\ fs[Val(store[p].destination_path)] # None
            /\ Val(fs[Val(store[p].destination_path)]).src = p

\* C5: a record of kind tv whose status is matched or linked has a season
\* and an episode.
C5_TvHasSeasonEpisode ==
    \A p \in DOMAIN store :
        (store[p].media_type = "tv" /\ store[p].status \in {"matched", "linked"}) =>
            /\ store[p].parsed_season # None
            /\ store[p].parsed_episode # None

\* C6: when the matcher finds nothing for the record a worker is about to
\* process, the record comes out with status manual and the no-match message.
C6_NoMatchIsManual ==
    \A p \in Paths :
        wpc[p] = "matching" =>
            LET r == ProcessFile(wlocal[p], p, NoMatch, "ok", fs, exists).rec
            IN  /\ r.status = "manual"
                /\ r.error_message = Some("Aucune correspondance TMDB trouvee")

C8_ExceptionMarksFailed ==
    [][\A p \in Paths :
          (wpc[p] # "failed" /\ wpc'[p] = "failed") =>
              /\ p \in DOMAIN store'
              /\ store'[p].status = "failed"
              /\ store'[p].error_message # None]_vars

\* C9: at most PARALLEL_WORKERS tasks are inside the section the semaphore
\* guards; each of them holds exactly one permit, and every way out of the
\* section gives the permit back.
C9_PermitsBounded ==
    /\ pool["inside"] <= PARALLEL_WORKERS
    /\ semaphore >= 0
    /\ semaphore + pool["inside"] = PARALLEL_WORKERS

C9_Witness ==
    /\ pool["inside"] = PARALLEL_WORKERS
    /\ pool["waiting"] > 0
    /\ pool["raised"] > 0

\* C10: a worker that finds an existing record whose status is not pending
\* never reaches the matcher or the linker, and none of its steps changes the
\* store or the destinations.
C10_NonPendingUntouched ==
    [][\A p \in Paths :
          (wpc'[p] # wpc[p] /\ (wseen[p] \in NonPending \/ wseen'[p] \in NonPending)) =>
              /\ wpc'[p] # "matching"
              /\ store' = store
              /\ fs' = fs]_vars

C10_Witness ==
    \E p \in Paths :
        /\ wpc[p] = "returned"
        /\ wseen[p] \in NonPending
        /\ p \in DOMAIN store
        /\ store[p].status = wseen[p]

\* events of the given kind among the first n events of evs
CountEvents(evs, type) ==
    Cardinality({i \in DOMAIN evs : evs[i].type = type})

\* C11: during a scan a file_added event is emitted for every record newly
\* inserted, and a file_updated event for every record a worker processed,
\* after the worker's commit.
C11_FileEventsEmitted ==
    [][\A p \in Paths :
          (scanPc = "chunk" /\ wpc[p] = "committing" /\ wpc'[p] = "returned") =>
              /\ wcreated[p] =>
                   CountEvents(events', "file_added") > CountEvents(events, "file_added")
              /\ wdirty[p] # {} =>
                   CountEvents(events', "file_updated") > CountEvents(events, "file_updated")]_vars

\* the events of a scan lie in the order the scan emits them
EventsInOrder ==
    events # <<>> =>
        /\ Len(events) >= 2
        /\ events[1].type = "scan_started"
        /\ events[2].type = "scan_progress"
        /\ events[2].data[1] = 0
        /\ scanPc # "idle" => events[2].data[2] = Len(video_files)
        /\ \A i \in 2..Len(events) : events[i].type # "scan_started"
        /\ \A i \in 1..(Len(events) - 1) : events[i].type # "scan_completed"
        /\ LastEvent.type = "scan_completed" =>
               events[Len(events) - 1].type = "stats_updated"

\* C12: within one scan scan_started comes first, scan_progress(0, total)
\* second, the final stats_updated next to last and scan_completed last, and
\* nothing is emitted for a scan after its scan_completed.
C12_EventOrder ==
    /\ []EventsInOrder
    /\ [][(events # <<>> /\ LastEvent.type = "scan_completed") =>
            \/ events' = events
            \/ (Len(events') = 2 /\ events'[1].type = "scan_started")]_vars

C12_Witness ==
    /\ CompletedWithSummary
    /\ Len(events) >= 6
    /\ CountEvents(events, "file_deleted") >= 1

C18_CancelWaitsForChunk ==
    [][(scanPc = "chunk" /\ scanPc' = "idle" /\ scanEnd' = "cancelled") =>
          \A p \in Paths : wpc[p] \notin {"queued", "matching", "committing"}]_vars

\* C16: a pass of the driver's loop that finds auto_scan_enabled false
\* starts no scan and clears next_scan; once the configuration is enabled
\* (and for as long as it stays so) the driver eventually starts a scan.
C16_DriverFollowsConfig ==
    /\ [][(AutoScannerIterate /\ ~auto_scan_enabled) =>
            (autoPc' # "scanning" /\ next_scan' = "none")]_vars
    /\ auto_scan_enabled ~> (autoPc = "scanning" \/ ~auto_scan_enabled)

C16_Witness ==
    /\ auto_scan_enabled
    /\ autoPc = "scanning"
    /\ next_scan = "set"

\* C19: with auto_scan_enabled set, unit "seconds" and interval 0 the driver
\* starts no scan.
C19_ZeroIntervalDisables ==
    [][(/\ auto_scan_enabled
        /\ auto_scan_unit = "seconds"
        /\ auto_scan_interval = 0
        /\ autoPc = "loop") => autoPc' # "scanning"]_vars

\* the streams whose generator is inside its loop
OpenStreams == {s \in Streams : streamPc[s] = "open"}

\* the streams whose queue is registered
Registered == {subscribers[i] : i \in DOMAIN subscribers}

\* C14: every emit puts the event exactly once into the queue of every
\* stream subscribed at that moment, in the order of the emits, and puts
\* nothing into a queue after its unsubscribe: what a stream's queue has
\* received is the stretch of the log between its subscribe and its
\* unsubscribe (or now).
C14_DeliveredOnceInOrder ==
    \A s \in Streams :
        received[s] =
            SubSeq(log, subFrom[s] + 1,
                   IF streamPc[s] = "open" THEN Len(log) ELSE subTo[s])

C14_Witness ==
    \E s, t \in Streams :
        /\ streamPc[s] = "open"
        /\ Len(received[s]) >= 2
        /\ received[s][1].type # received[s][2].type
        /\ streamPc[t] = "closed"
        /\ Len(received[t]) >= 1
        /\ subTo[t] < Len(log)

\* C15: however a stream ends, its queue is no longer registered: the
\* registered queues are those of the streams still open, each once.
C15_RegisteredAreOpen ==
    /\ Registered = OpenStreams
    /\ Len(subscribers) = Cardinality(OpenStreams)

C15_Witness ==
    \E s, t \in Streams :
        /\ streamEnd[s] = "error"
        /\ streamPc[s] = "closed"
        /\ streamPc[t] = "open"
        /\ subscribers = <<t>>

\* C17: at most one task of the driver is alive; a task is created only
\* when none is alive; when restart() returns exactly one task is alive, it
\* is the driver's current task, and the task restart() cancelled is done.
C17_OneDriverTask ==
    /\ [](Cardinality(Alive(task_state)) <= 1)
    /\ [][Alive(task_state') \ Alive(task_state) # {} =>
            Alive(task_state) = {}]_vars
    /\ [][\A c \in Callers :
            RestartReturns(c) =>
              /\ Alive(task_state') = {cur_task'}
              /\ cur_task' # callWait[c]
              /\ callWait[c] # 0 => task_state'[callWait[c]] = "done"]_vars

C17_Witness ==
    \E c \in Callers :
        /\ callPc[c] = "idle"
        /\ \E d \in Callers : callPc[d] = "restart" /\ callWait[d] = 1
        /\ task_state[1] = "done"
        /\ cur_task = 2
        /\ task_state[2] = "alive"

\* C20: update(partial) changes exactly the fields supplied with a value
\* and keeps the fields omitted or null; the document it returns is what
\* load() returns next and what the file holds.
C20_UpdateMerges ==
    [][\A partial \in Partials :
          ConfigUpdate(partial, TRUE) =>
            LET old == Loaded(config_cache, config_file)
                new == Val(config_returned')
            IN  /\ \A f \in ConfigFields :
                      new[f] = IF partial[f] \in {None, Some(None)}
                                 THEN old[f]
                                 ELSE Val(Val(partial[f]))
                /\ Loaded(config_cache', config_file') = new
                /\ Parses(Val(config_file'))
                /\ Parse(Val(config_file')) = new]_vars

C20_Witness ==
    /\ config_returned # None
    /\ config_cache = None
    /\ config_file # None
    /\ Parses(Val(config_file))
    /\ Val(config_returned) = Parse(Val(config_file))
    /\ Val(config_returned).require_arr
    /\ Val(config_returned).auto_scan_interval = 0
    /\ Val(config_returned).auto_scan_unit = "minutes"

\* C21: the configuration file is replaced atomically: whatever step an
\* update stops at, the file holds a whole document, the previous one or
\* the new one.
C21_FileIsWhole ==
    config_file # None => Parses(Val(config_file))

\* C22: linking a source to a destination that already holds a link to
\* it, hard or symbolic, succeeds (the source present, link(2) answering ok
\* or EXDEV) and leaves at the destination one entry that refers to the
\* source.
C22_RelinkIdempotent ==
    (/\ last_call # None
     /\ Val(last_call).repeat
     /\ Val(last_call).present
     /\ Val(last_call).lo \in {"ok", "exdev"}) =>
         /\ Val(last_call).ok
         /\ link_fs[Val(last_call).dest] # None
         /\ Val(link_fs[Val(last_call).dest]).src = Val(last_call).source

C22_Witness ==
    /\ last_call # None
    /\ Val(last_call).repeat
    /\ Val(last_call).was_sym
    /\ Val(last_call).ok
    /\ Val(last_call).lo = "exdev"
    /\ IsSymlink(link_fs, Val(last_call).dest)

\* the matcher's answer makes create_link call the linker
LinkAttempted(rec, mo) ==
    /\ mo.kind = "hit"
    /\ mo.media_type = "tv" =>
          (rec.parsed_season # None /\ rec.parsed_episode # None)

\* the destination create_link then asks the linker for
AttemptedDest(rec, mo) ==
    IF mo.media_type = "movie"
      THEN BuildMoviePath(mo.id)
      ELSE BuildTvPath(mo.id, Val(rec.parsed_season), Val(rec.parsed_episode))

StrictlyBelow(path, root) ==
    /\ Len(path) > Len(root)
    /\ SubSeq(path, 1, Len(root)) = root

\* C24: removing a destination removes no configured root and no
\* directory that is not strictly below a configured root, also when the
\* destination was created before the roots were changed.
C24_PruneStaysBelowRoot ==
    [][\A d \in dest_dirs \ dest_dirs' :
          \/ StrictlyBelow(d, movies_path)
          \/ StrictlyBelow(d, tv_path)]_vars

\* the results the i-th search of the call brought, a failed search
\* counting as an empty one
Brought(call, i) ==
    IF call.answers[i].status = "ok" THEN call.answers[i].results ELSE <<>>

\* the searches of the call that brought something
Fruitful(call) ==
    {i \in DOMAIN call.attempts : Brought(call, i) # <<>>}

\* what the call is to answer, from its searches
Expected(call) ==
    IF call.title.text = "" \/ Fruitful(call) = {} THEN NoResult
    ELSE LET i == CHOOSE i \in Fruitful(call) :
                     \A j \in Fruitful(call) : i <= j
             r == Brought(call, i)
             ofYear == {k \in DOMAIN r : r[k].year = call.year}
         IN  IF call.year # None /\ ofYear # {}
               THEN [kind |-> "hit",
                     id |-> r[CHOOSE k \in ofYear : \A m \in ofYear : k <= m].id]
               ELSE [kind |-> "hit", id |-> r[1].id]

\* the call met no exception of the HTTP client
NoNetworkError(call) ==
    \A i \in DOMAIN call.attempts : call.answers[i].status # "error"

\* C25: match_media answers no match for an empty title or when every
\* search is empty; else it stops at the first non-empty search, in the
\* order (title, year) if a year is known, (title, none), the cleaned
\* variant, and answers the first candidate of the known year, or the
\* first candidate when no year is known or none has it.
C25_MatchMediaResult ==
    match_call # None =>
        LET call == Val(match_call)
            a == call.attempts
        IN  /\ NoNetworkError(call) => call.result = Expected(call)
            /\ a[1] = <<call.title.text, call.year>>
            /\ call.year # None => a[2] = <<call.title.text, None>>
            /\ Len(a) > (IF call.year # None THEN 2 ELSE 1) =>
                  a[Len(a)][1] = call.title.clean

C25_Witness ==
    /\ match_call # None
    /\ Val(match_call).year # None
    /\ Len(Val(match_call).attempts) = 3
    /\ Val(match_call).answers[1].results = <<>>
    /\ Val(match_call).answers[2].status = "ok"
    /\ Len(Val(match_call).answers[2].results) = 2
    /\ Val(match_call).answers[2].results[2].year = Val(match_call).year
    /\ Val(match_call).result = [kind |-> "hit", id |-> 1]

\* C26: a network error or timeout of one search counts as an empty result
\* of that search: the call goes on with the next search and answers as if
\* the failed search had brought nothing.
C26_ErrorIsEmptySearch ==
    match_call # None => Val(match_call).result = Expected(Val(match_call))

\* C27: every stats_updated payload is consistent with one state of the
\* record store: its total_files equals the sum of its per-status counts,
\* also when sessions commit record changes while get_stats reads.
C27_StatsOneState ==
    stat_payload # None =>
        LET p == Val(stat_payload)
        IN  p["total_files"] =
                p["pending"] + p["matched"] + p["linked"] + p["failed"]
                    + p["ignored"] + p["manual"]

\* C28: no two records share a source_path, and when two workers observe the
\* same new path concurrently the second insert becomes an update of the
\* one record: the worker returns and the record holds what it computed.
C28_InsertCollapsesToUpdate ==
    /\ \A r1 \in ins_rows, r2 \in ins_rows :
          r1.source_path = r2.source_path => r1 = r2
    /\ \A w \in InsWorkers :
          /\ ins_pc[w] # "raised"
          /\ ins_pc[w] = "returned" /\ ins_created[w] =>
                \E r \in ins_rows : r.source_path = ins_local[w].source_path

\* C29: each processing step is durable on its own: when retry-failed
\* returns, no record it processed is left pending in the store.
C29_ProcessedIsCommitted ==
    [][RetryFailed =>
          \A p \in DOMAIN store :
             store[p].status \in {"failed", "manual", "pending"} =>
                store'[p].status # "pending"]_vars

\* C30: with require_arr set, a scan request is refused with 400 unless both
\* the Radarr and the Sonarr endpoint answer; a refused request starts no
\* scan, emits no event and leaves the scan guard as it was.
C30_RequireArrRefuses ==
    [][\A c \in Clients, radarr_ok \in BOOLEAN, sonarr_ok \in BOOLEAN :
          ScanFilesAfterArr(c, radarr_ok, sonarr_ok) =>
             IF radarr_ok /\ sonarr_ok
               THEN reqResp'[c] = "started"
               ELSE /\ reqResp'[c] = "400"
                    /\ scan_in_progress' = scan_in_progress
                    /\ opRunning' = opRunning
                    /\ events' = events]_vars

\* a request was refused and neither a scan nor the guard is there
C30_Witness ==
    \E c \in Clients :
        /\ reqResp[c] = "400"
        /\ require_arr
        /\ ~scan_in_progress
        /\ opRunning = 0

C32_SpecialIsScanned ==
    disc_found # None =>
        \A f \in disc_tree :
            /\ f.stem \in SpecialStems
            /\ ~HasEpisodeToken(StemTable[f.stem])
            /\ ~f.hidden
            /\ LowerSeq(SuffixTable[f.suffix]) \in video_extensions
            /\ f.size >= MinVideoSize
            => f \in Val(disc_found)

\* S\d+E\d+: a season and episode token with seasons of any length
CarriesSeasonEpisode(s) ==
    \E i \in 1..Len(s), a \in 1..Len(s) :
        /\ At(s, i) = "S"
        /\ a > i
        /\ AllDigits(s, i + 1, a)
        /\ At(s, a + 1) = "E"
        /\ IsDigit(At(s, a + 2))

\* C33: discovery returns exactly the files under the root with no hidden
\* path component, a configured extension in lower case, a size of at least
\* the minimum, and a name the ignore filter does not match or that carries
\* an S<n>E<m> token.
C33_DiscoveryIsExact ==
    disc_found # None =>
        Val(disc_found) =
            {f \in disc_tree :
                /\ ~f.hidden
                /\ LowerSeq(SuffixTable[f.suffix]) \in video_extensions
                /\ f.size >= MinVideoSize
                /\ \/ ~(IgnoreRegex(FileName(f)) \/ OpEdRegex(FileName(f)))
                   \/ CarriesSeasonEpisode(FileName(f))}

\* C34: the sanitized component holds none of the invalid characters, has
\* no white space at either end, does not end with a dot, has at most 200
\* characters, and sanitizing it again gives the same.
C34_SanitizeIsClean ==
    san_call # None =>
        LET out == Val(san_call).once
        IN  /\ \A i \in 1..Len(out) : out[i] \notin invalid_chars
            /\ out # <<>> => /\ out[1] # " "
                             /\ out[Len(out)] \notin {" ", "."}
            /\ Len(out) <= MaxComponentLen
            /\ Val(san_call).twice = out

\* C35: the list is processed in consecutive chunks of at most 100 files: no
\* worker of a later chunk starts before every worker of the chunks before
\* it has finished, and one stats_updated is emitted after each chunk,
\* before the next chunk starts.
C35_ChunksInTurn ==
    /\ chk_started <= chk_start + BATCH_SIZE
    /\ chk_waiting + chk_inside <= BATCH_SIZE
    /\ chk_started > 0 =>
          LET before == (chk_started - 1) \div BATCH_SIZE
          IN  /\ chk_finished >= before * BATCH_SIZE
              /\ chk_stats >= before
    /\ chk_stats * BATCH_SIZE <= chk_finished + BATCH_SIZE - 1

\* a worker of the third chunk is at work
C35_Witness ==
    /\ chk_started > 2 * BATCH_SIZE
    /\ chk_inside > 0
    /\ chk_stats = 2

\* C36: the workers emit scan_progress exactly when the count of completed
\* files reaches a multiple of 50: after the opening event with current 0
\* the current values are 50, 100, ... in this order, one for every
\* multiple the counter has reached, and none exceeds the total.
C36_ProgressEveryFifty ==
    chk_pc # "idle" =>
        /\ Len(chk_progress) = 1 + chk_counter \div SSE_UPDATE_FREQUENCY
        /\ \A i \in 1..Len(chk_progress) :
              /\ chk_progress[i] = (i - 1) * SSE_UPDATE_FREQUENCY
              /\ chk_progress[i] <= chk_files

\* the workers of a scan have emitted 50, 100 and 150 though one of them
\* was ended by an exception
C36_Witness ==
    /\ chk_progress = <<0, 50, 100, 150>>
    /\ chk_finished > chk_counter

\* C37: in the summary of every completed scan processed = linked + failed
\* + manual and new <= processed <= scanned, and every record a worker
\* processes leaves process_file as linked, failed or manual.
C37_SummaryAddsUp ==
    /\ [](CompletedWithSummary =>
            LET d == LastEvent.data
            IN  /\ d.processed = d.linked + d.failed + d.manual
                /\ d.new <= d.processed
                /\ d.processed <= d.scanned)
    /\ [][\A p \in Paths :
             wpc[p] = "matching" /\ wpc'[p] = "committing" =>
                wlocal'[p].status \in {"linked", "failed", "manual"}]_vars

\* a scan of two files completed with one record linked and one left for
\* manual correction
C37_Witness ==
    /\ CompletedWithSummary
    /\ LastEvent.data.processed = 2
    /\ LastEvent.data.linked = 1
    /\ LastEvent.data.manual = 1

\* C38: after a manual match request returned with the link created, the
\* committed record has status linked and the new canonical destination as
\* its destination_path.
C38_ManualMatchCommitted ==
    [][\A p \in Paths, req \in MatchRequests, lo \in LinkOutcomes :
          ManualMatch(p, req, lo) =>
             LET rec == ManuallyMatched(store[p], req)
                 r == CreateLink(rec, p, lo,
                                 RemoveRecordLink(fs, rec, exists), exists)
             IN  r.rec.status = "linked" =>
                    /\ store'[p].status = "linked"
                    /\ store'[p].destination_path = r.rec.destination_path]_vars

\* C39: a record with status ignored is never modified by a scan, by
\* reprocess-all or by retry-failed: it changes only in a single-record
\* operation on it (PATCH, reprocess, manual match), or it is deleted.
C39_IgnoredIsFrozen ==
    [][\A p \in DOMAIN store :
          /\ store[p].status = "ignored"
          /\ p \in DOMAIN store'
          /\ store'[p] # store[p]
          => \/ \E u \in PatchInputs : UpdateFile(p, u)
             \/ \E o \in AllProcOutcomes : ReprocessFile(p, o)
             \/ \E req \in MatchRequests, lo \in LinkOutcomes :
                   ManualMatch(p, req, lo)]_vars

====
